---- MODULE Spec2Model ----
(***************************************************************************)
(* Lift shaft sketch generator: LiftConfig construction and validation,    *)
(* the separator / arrangement policy, and LiftShaftSketch construction    *)
(* followed by generate / to_bytes.                                        *)
(*                                                                         *)
(* Lengths are real numbers of millimetres in the program.  The model      *)
(* keeps them as integers counting 1/Scale mm, so that a non-integral      *)
(* length (1400.5 mm) is representable and int() is a real truncation.     *)
(***************************************************************************)
EXTENDS Integers, Sequences, FiniteSets, TLC

\* Resolution of a length: one unit is 1/Scale mm.
Scale == 2

\* Largest number of lifts a caller puts in one list / passes as num_lifts.
MaxLifts == 5

mm(x) == x * Scale

\* Python int(): truncation toward zero, result in whole mm.
int(x) == IF x >= 0 THEN x \div Scale ELSE -((-x) \div Scale)

\* Optional[float] = None
None == -1

\* Outcome of reading an attribute the config module does not define.
AttributeError == -2

\* The config module namespace: exactly the names config.py assigns
\* (those the modelled code reads).
config ==
    [ DEFAULT_SHAFT_WIDTH                 |-> mm(2950),
      DEFAULT_DOOR_EXTENSION              |-> mm(100),
      CW_BOX_WIDTH                        |-> mm(450),
      CW_FRAME_THICKNESS                  |-> mm(50),
      DEFAULT_DOOR_HEIGHT                 |-> mm(2100),
      DEFAULT_STRUCTURAL_OPENING_HEIGHT   |-> mm(2200),
      DEFAULT_PIT_DEPTH                   |-> mm(200),
      DEFAULT_OVERHEAD_CLEARANCE          |-> mm(4200),
      DEFAULT_TRAVEL_HEIGHT               |-> mm(30000),
      DEFAULT_FLOOR_HEIGHT                |-> mm(3200),
      DEFAULT_CAR_INTERIOR_HEIGHT         |-> mm(2400),
      DEFAULT_MACHINE_ROOM_HEIGHT         |-> mm(3000),
      DEFAULT_SHAFT_DEPTH                 |-> mm(2300),
      DEFAULT_WALL_THICKNESS              |-> mm(200),
      DEFAULT_DOOR_WIDTH                  |-> mm(1100),
      DEFAULT_STRUCTURAL_OPENING_WIDTH    |-> mm(1300),
      DEFAULT_SHARED_WALL_THICKNESS       |-> mm(200),
      FIRE_LIFT_MIN_SHAFT_WIDTH           |-> mm(2700),
      FIRE_LIFT_DOOR_WIDTH                |-> mm(1200),
      DEFAULT_FINISHED_CAR_WIDTH          |-> mm(1900),
      DEFAULT_FINISHED_CAR_DEPTH          |-> mm(1600),
      DEFAULT_CAR_WALL_THICKNESS          |-> mm(25),
      CAR_BRACKET_BOX_WIDTH               |-> mm(275),
      DEFAULT_COUNTERWEIGHT_BRACKET_WIDTH |-> mm(625),
      DEFAULT_CAR_BRACKET_WIDTH           |-> mm(375),
      DEFAULT_STEEL_BEAM_WIDTH            |-> mm(150),
      DEFAULT_LIFT_DOOR_THICKNESS         |-> mm(150),
      DEFAULT_DOOR_GAP                    |-> mm(30),
      DEFAULT_REAR_CLEARANCE              |-> mm(345),
      MIN_REAR_CLEARANCE                  |-> mm(200),
      MRA_CAR_BRACKET_WIDTH               |-> mm(325),
      MRA_CW_BRACKET_DEPTH                |-> mm(400),
      MRA_CW_GAP                          |-> mm(100),
      DEFAULT_LOBBY_WIDTH                 |-> mm(4000) ]

\* getattr on the config module: a name config.py never assigns raises.
hasattr(name) == name \in DOMAIN config

\* Fire lift fixed cabin sizes (width, depth) in whole mm.
FIRE_LIFT_CABIN_SIZES == { <<1400, 2400>>, <<1500, 2300>>, <<1550, 2200>> }

Max(a, b) == IF a >= b THEN a ELSE b

(***************************************************************************)
(* LiftConfig: dataclass fields and derived properties                     *)
(***************************************************************************)

\* Field defaults of the dataclass.
LiftConfigDefaults ==
    [ lift_type                   |-> "passenger",
      lift_machine_type           |-> "mrl",
      finished_car_width          |-> config.DEFAULT_FINISHED_CAR_WIDTH,
      finished_car_depth          |-> config.DEFAULT_FINISHED_CAR_DEPTH,
      counterweight_bracket_width |-> config.DEFAULT_COUNTERWEIGHT_BRACKET_WIDTH,
      car_bracket_width           |-> config.DEFAULT_CAR_BRACKET_WIDTH,
      mra_car_bracket_width       |-> config.MRA_CAR_BRACKET_WIDTH,
      mra_car_bracket_width_right |-> None,
      mra_cw_bracket_depth        |-> config.MRA_CW_BRACKET_DEPTH,
      shaft_width_override        |-> None,
      shaft_depth_override        |-> None,
      door_width                  |-> config.DEFAULT_DOOR_WIDTH,
      structural_opening_width    |-> config.DEFAULT_STRUCTURAL_OPENING_WIDTH,
      door_panel_thickness        |-> config.DEFAULT_LIFT_DOOR_THICKNESS,
      door_opening_type           |-> "centre",
      telescopic_left_ext         |-> None,
      telescopic_right_ext        |-> None ]

unfinished_car_width(c) == c.finished_car_width + 2 * config.DEFAULT_CAR_WALL_THICKNESS

unfinished_car_depth(c) == c.finished_car_depth + config.DEFAULT_CAR_WALL_THICKNESS

mra_right_bracket_width(c) ==
    IF c.mra_car_bracket_width_right # None
    THEN c.mra_car_bracket_width_right
    ELSE c.mra_car_bracket_width

\* The fire-lift minimum min_shaft_width and __post_init__ look up:
\* a different config name for telescopic and for centre doors.
fire_min_name(c) ==
    IF c.door_opening_type = "telescopic"
    THEN "FIRE_LIFT_MIN_SHAFT_WIDTH_TELESCOPIC"
    ELSE "FIRE_LIFT_MIN_SHAFT_WIDTH"

\* Sum of brackets and unfinished car, before the fire-lift floor.
bracket_car_width(c) ==
    IF c.lift_machine_type = "mra"
    THEN c.mra_car_bracket_width + unfinished_car_width(c) + mra_right_bracket_width(c)
    ELSE c.counterweight_bracket_width + unfinished_car_width(c) + c.car_bracket_width

min_shaft_width(c) ==
    IF c.lift_type = "fire"
    THEN IF hasattr(fire_min_name(c))
         THEN Max(bracket_car_width(c), config[fire_min_name(c)])
         ELSE AttributeError
    ELSE bracket_car_width(c)

min_shaft_depth(c) ==
    IF c.lift_machine_type = "mra"
    THEN 2 * c.door_panel_thickness + config.DEFAULT_DOOR_GAP
         + unfinished_car_depth(c) + config.MRA_CW_GAP + c.mra_cw_bracket_depth
    ELSE unfinished_car_depth(c) + 2 * c.door_panel_thickness
         + config.DEFAULT_DOOR_GAP + config.DEFAULT_REAR_CLEARANCE

shaft_width(c) ==
    IF c.shaft_width_override # None
    THEN c.shaft_width_override
    ELSE min_shaft_width(c)

effective_shaft_depth(c) ==
    IF c.shaft_depth_override # None
    THEN c.shaft_depth_override
    ELSE min_shaft_depth(c)

remaining_depth(c) == effective_shaft_depth(c) - min_shaft_depth(c)

actual_rear_clearance(c) == config.DEFAULT_REAR_CLEARANCE + remaining_depth(c)

(***************************************************************************)
(* LiftConfig.__post_init__: every violated rule appends one message       *)
(***************************************************************************)

\* One validation message: the rule it reports and the two numbers it names.
Msg(rule, a, b) == [rule |-> rule, a |-> a, b |-> b]

\* Fire lift cabin size validation.
FireCabinErrors(c) ==
    IF c.lift_type = "fire"
       /\ <<int(c.finished_car_width), int(c.finished_car_depth)>> \notin FIRE_LIFT_CABIN_SIZES
    THEN << Msg("fire_cabin_size", int(c.finished_car_width), int(c.finished_car_depth)) >>
    ELSE << >>

\* A fire lift's door width is replaced by the fire lift door width.
SetFireDoorWidth(c) ==
    IF c.lift_type = "fire"
    THEN [c EXCEPT !.door_width = config.FIRE_LIFT_DOOR_WIDTH]
    ELSE c

\* Validate door_opening_type.
DoorTypeErrors(c) ==
    (IF c.door_opening_type \notin {"centre", "telescopic"}
     THEN << Msg("door_opening_type", 0, 0) >> ELSE << >>)
    \o
    (IF c.door_opening_type = "telescopic" /\ c.lift_type # "fire"
     THEN << Msg("telescopic_non_fire", 0, 0) >> ELSE << >>)

\* Auto-calculating the telescopic extensions reads two config names.
TelescopicFillRaises(c) ==
    /\ c.door_opening_type = "telescopic"
    /\ \/ c.telescopic_left_ext = None /\ ~hasattr("TELESCOPIC_LEFT_EXTENSION_EXTRA")
       \/ c.telescopic_right_ext = None /\ ~hasattr("TELESCOPIC_RIGHT_EXTENSION")

TelescopicFill(c) ==
    IF c.door_opening_type # "telescopic" THEN c
    ELSE [c EXCEPT
            !.telescopic_left_ext =
                IF @ = None
                THEN (c.door_width \div 2) + config["TELESCOPIC_LEFT_EXTENSION_EXTRA"]
                ELSE @,
            !.telescopic_right_ext =
                IF @ = None THEN config["TELESCOPIC_RIGHT_EXTENSION"] ELSE @]

\* BracketErrors without the check of the MRA right car bracket.
BracketErrors_NoRightBracket(c) ==
    IF c.lift_machine_type = "mrl"
    THEN (IF c.counterweight_bracket_width < config.DEFAULT_COUNTERWEIGHT_BRACKET_WIDTH
          THEN << Msg("cw_bracket_width", int(c.counterweight_bracket_width),
                      int(config.DEFAULT_COUNTERWEIGHT_BRACKET_WIDTH)) >>
          ELSE << >>)
         \o
         (IF c.car_bracket_width < config.DEFAULT_CAR_BRACKET_WIDTH
          THEN << Msg("car_bracket_width", int(c.car_bracket_width),
                      int(config.DEFAULT_CAR_BRACKET_WIDTH)) >>
          ELSE << >>)
    ELSE (IF c.mra_car_bracket_width < config.MRA_CAR_BRACKET_WIDTH
          THEN << Msg("mra_left_bracket", int(c.mra_car_bracket_width),
                      int(config.MRA_CAR_BRACKET_WIDTH)) >>
          ELSE << >>)
         \o
         (IF c.mra_cw_bracket_depth < config.MRA_CW_BRACKET_DEPTH
          THEN << Msg("mra_cw_bracket_depth", int(c.mra_cw_bracket_depth),
                      int(config.MRA_CW_BRACKET_DEPTH)) >>
          ELSE << >>)

\* Validate bracket dimensions meet minimums.
BracketErrors(c) ==
    IF c.lift_machine_type = "mrl"
    THEN (IF c.counterweight_bracket_width < config.DEFAULT_COUNTERWEIGHT_BRACKET_WIDTH
          THEN << Msg("cw_bracket_width", int(c.counterweight_bracket_width),
                      int(config.DEFAULT_COUNTERWEIGHT_BRACKET_WIDTH)) >>
          ELSE << >>)
         \o
         (IF c.car_bracket_width < config.DEFAULT_CAR_BRACKET_WIDTH
          THEN << Msg("car_bracket_width", int(c.car_bracket_width),
                      int(config.DEFAULT_CAR_BRACKET_WIDTH)) >>
          ELSE << >>)
    ELSE (IF c.mra_car_bracket_width < config.MRA_CAR_BRACKET_WIDTH
          THEN << Msg("mra_left_bracket", int(c.mra_car_bracket_width),
                      int(config.MRA_CAR_BRACKET_WIDTH)) >>
          ELSE << >>)
         \o
         (IF mra_right_bracket_width(c) < config.MRA_CAR_BRACKET_WIDTH
          THEN << Msg("mra_right_bracket", int(mra_right_bracket_width(c)),
                      int(config.MRA_CAR_BRACKET_WIDTH)) >>
          ELSE << >>)
         \o
         (IF c.mra_cw_bracket_depth < config.MRA_CW_BRACKET_DEPTH
          THEN << Msg("mra_cw_bracket_depth", int(c.mra_cw_bracket_depth),
                      int(config.MRA_CW_BRACKET_DEPTH)) >>
          ELSE << >>)

\* Validating a shaft width override evaluates min_shaft_width.
WidthOverrideRaises(c) ==
    c.shaft_width_override # None /\ min_shaft_width(c) = AttributeError

\* Validate shaft width override.
WidthOverrideErrors(c) ==
    IF c.shaft_width_override = None THEN << >>
    ELSE (IF c.shaft_width_override < min_shaft_width(c)
          THEN << Msg("shaft_width_below_min", int(c.shaft_width_override),
                      int(min_shaft_width(c))) >>
          ELSE << >>)
         \o
         (IF c.lift_type = "fire" /\ c.shaft_width_override < config[fire_min_name(c)]
          THEN << Msg("fire_shaft_width_below_min", int(c.shaft_width_override),
                      int(config[fire_min_name(c)])) >>
          ELSE << >>)
         \o
         (IF c.shaft_width_override < c.structural_opening_width
          THEN << Msg("opening_exceeds_shaft_width", int(c.structural_opening_width),
                      int(c.shaft_width_override)) >>
          ELSE << >>)

\* The rear clearance __post_init__ computes for an MRL depth override.
actual_rear(c) ==
    IF c.shaft_depth_override >= min_shaft_depth(c)
    THEN config.DEFAULT_REAR_CLEARANCE + (c.shaft_depth_override - min_shaft_depth(c))
    ELSE config.DEFAULT_REAR_CLEARANCE - (min_shaft_depth(c) - c.shaft_depth_override)

\* DepthOverrideErrors checking only the MRL rear clearance, not the minimum depth.
DepthOverrideErrors_RearOnly(c) ==
    IF c.shaft_depth_override = None THEN << >>
    ELSE IF c.lift_machine_type = "mrl" /\ actual_rear(c) < config.MIN_REAR_CLEARANCE
         THEN << Msg("rear_clearance_below_min", int(actual_rear(c)),
                     int(config.MIN_REAR_CLEARANCE)) >>
         ELSE << >>

\* Validate shaft depth override.
DepthOverrideErrors(c) ==
    IF c.shaft_depth_override = None THEN << >>
    ELSE (IF c.shaft_depth_override < min_shaft_depth(c)
          THEN << Msg("shaft_depth_below_min", int(c.shaft_depth_override),
                      int(min_shaft_depth(c))) >>
          ELSE << >>)
         \o
         (IF c.lift_machine_type = "mrl" /\ actual_rear(c) < config.MIN_REAR_CLEARANCE
          THEN << Msg("rear_clearance_below_min", int(actual_rear(c)),
                      int(config.MIN_REAR_CLEARANCE)) >>
          ELSE << >>)

\* Validate door width fits structural opening.
DoorWidthErrors(c) ==
    IF c.door_width > c.structural_opening_width
    THEN << Msg("door_exceeds_opening", int(c.door_width), int(c.structural_opening_width)) >>
    ELSE << >>

\* The object no constructor call returned.
NoObject == [lift_type |-> "none"]

\* __post_init__ on the fields the caller passed: the outcome of the
\* constructor call, the messages of its ValueError, and the object.
post_init(kw) ==
    LET c1 == SetFireDoorWidth(kw)
    IN  IF TelescopicFillRaises(c1)
        THEN [outcome |-> "AttributeError", errors |-> << >>, obj |-> NoObject]
        ELSE LET c2 == TelescopicFill(c1)
             IN  IF WidthOverrideRaises(c2)
                 THEN [outcome |-> "AttributeError", errors |-> << >>, obj |-> NoObject]
                 ELSE LET errors == FireCabinErrors(kw) \o DoorTypeErrors(c1)
                                    \o BracketErrors(c2) \o WidthOverrideErrors(c2)
                                    \o DepthOverrideErrors(c2) \o DoorWidthErrors(c2)
                      IN  IF errors # << >>
                          THEN [outcome |-> "ValueError", errors |-> errors, obj |-> NoObject]
                          ELSE [outcome |-> "ok", errors |-> << >>, obj |-> c2]

(***************************************************************************)
(* Separator & arrangement policy                                          *)
(***************************************************************************)

\* validate_fire_lift_positions off by one: a fire lift is let through at
\* index 1 as well as at index 0.
validate_fire_lift_positions_OffByOne(ls) ==
    IF \E idx \in 1..Len(ls) : ls[idx].lift_type = "fire" /\ idx > 2
    THEN "ValueError"
    ELSE "ok"

\* Raises ValueError at the first fire lift found at an index other than 0
\* (sequence position > 1).
validate_fire_lift_positions(ls) ==
    IF \E idx \in 1..Len(ls) : ls[idx].lift_type = "fire" /\ idx # 1
    THEN "ValueError"
    ELSE "ok"

\* determine_separator_type looking at the first lift only.
determine_separator_type_FirstOnly(ls, is_common_shaft) ==
    IF ~is_common_shaft THEN "rcc_wall"
    ELSE IF Len(ls) > 0 /\ ls[1].lift_type = "fire" THEN "rcc_wall" ELSE "steel_beam"

determine_separator_type(ls, is_common_shaft) ==
    IF ~is_common_shaft THEN "rcc_wall"
    ELSE LET lift_types == { ls[i].lift_type : i \in 1..Len(ls) }
         IN  IF "fire" \in lift_types THEN "rcc_wall" ELSE "steel_beam"

(***************************************************************************)
(* LiftShaftSketch.__init__ and _calculate_geometry                        *)
(***************************************************************************)

RECURSIVE sum(_)
sum(s) == IF s = << >> THEN 0 ELSE Head(s) + sum(Tail(s))

RECURSIVE max(_)
max(s) == IF Len(s) = 1 THEN s[1] ELSE Max(Head(s), max(Tail(s)))

\* "x or default": a None or zero argument takes the default.
or(x, default) == IF x = None \/ x = 0 THEN default ELSE x

\* The sketch no constructor call returned.
NoSketch == [use_enhanced_api |-> FALSE, num_lifts |-> 0]

\* Validate lift counts per bank.
BankCountRaises(ls, ls2) == Len(ls) > 4 \/ Len(ls2) > 4

\* A lift whose shaft_width property raises when the sketch reads it.
ShaftWidthRaises(ls) == \E i \in 1..Len(ls) : shaft_width(ls[i]) = AttributeError

\* Bank width: outer walls, shafts and separators.
bank_width(n, widths, wt, swt) ==
    IF n = 1 THEN widths[1] + 2 * wt
    ELSE 2 * wt + sum(widths) + (n - 1) * swt

\* _calculate_geometry taking bank 1's width as the total width of a facing
\* arrangement (bank 2 ignored).
calculate_geometry_Bank1Width(sk) ==
    LET wt == sk.wall_thickness
        bank1_width == bank_width(sk.num_lifts, sk.shaft_widths, wt, sk.shared_wall_thickness)
    IN  IF sk.is_facing
        THEN LET bank2_width == bank_width(sk.num_lifts_bank2, sk.shaft_widths_bank2, wt,
                                           sk.shared_wall_thickness_bank2)
                 bank1_depth == sk.max_shaft_depth + 2 * wt
                 bank2_depth == sk.max_shaft_depth_bank2 + 2 * wt
             IN  [sk EXCEPT !.total_width = bank1_width,
                            !.bank1_width = bank1_width,
                            !.bank2_width = bank2_width,
                            !.total_depth = bank1_depth + sk.lobby_width + bank2_depth,
                            !.bank2_y = 0,
                            !.bank1_y = bank2_depth + sk.lobby_width]
        ELSE [sk EXCEPT !.total_width = bank1_width,
                        !.total_depth = sk.shaft_depth + 2 * wt,
                        !.bank1_width = bank1_width,
                        !.bank2_width = 0,
                        !.bank1_y = 0,
                        !.bank2_y = 0]

\* _calculate_geometry on the attributes __init__ has set.
calculate_geometry(sk) ==
    LET wt == sk.wall_thickness
        bank1_width == bank_width(sk.num_lifts, sk.shaft_widths, wt, sk.shared_wall_thickness)
    IN  IF sk.is_facing
        THEN LET bank2_width == bank_width(sk.num_lifts_bank2, sk.shaft_widths_bank2, wt,
                                           sk.shared_wall_thickness_bank2)
                 bank1_depth == sk.max_shaft_depth + 2 * wt
                 bank2_depth == sk.max_shaft_depth_bank2 + 2 * wt
             IN  [sk EXCEPT !.total_width = Max(bank1_width, bank2_width),
                            !.bank1_width = bank1_width,
                            !.bank2_width = bank2_width,
                            !.total_depth = bank1_depth + sk.lobby_width + bank2_depth,
                            !.bank2_y = 0,
                            !.bank1_y = bank2_depth + sk.lobby_width]
        ELSE [sk EXCEPT !.total_width = bank1_width,
                        !.total_depth = sk.shaft_depth + 2 * wt,
                        !.bank1_width = bank1_width,
                        !.bank2_width = 0,
                        !.bank1_y = 0,
                        !.bank2_y = 0]

\* Attributes of a sketch built from a lifts list (enhanced API).
EnhancedSketch(a, ls, ls2) ==
    LET is_facing == Len(ls2) > 0
        depths == [i \in 1..Len(ls) |-> effective_shaft_depth(ls[i])]
        given == a.shaft_depth # None /\ a.shaft_depth # 0
        wt == or(a.wall_thickness, config.DEFAULT_WALL_THICKNESS)
        steel == or(a.steel_beam_width, config.DEFAULT_STEEL_BEAM_WIDTH)
        sep == determine_separator_type(ls, a.is_common_shaft)
        sep2 == determine_separator_type(ls2, a.is_common_shaft)
        depths2 == [i \in 1..Len(ls2) |-> effective_shaft_depth(ls2[i])]
    IN  [ is_facing                   |-> is_facing,
          use_enhanced_api            |-> TRUE,
          is_common_shaft             |-> a.is_common_shaft,
          lobby_width                 |-> or(a.lobby_width, config.DEFAULT_LOBBY_WIDTH),
          num_lifts                   |-> Len(ls),
          shaft_depth                 |-> IF given THEN a.shaft_depth ELSE max(depths),
          shaft_depths                |-> IF given THEN [i \in 1..Len(ls) |-> a.shaft_depth]
                                          ELSE depths,
          max_shaft_depth             |-> IF given THEN a.shaft_depth ELSE max(depths),
          wall_thickness              |-> wt,
          separator_type              |-> sep,
          shared_wall_thickness       |-> IF sep = "steel_beam" THEN steel
                                          ELSE or(a.shared_wall_thickness, wt),
          shaft_widths                |-> [i \in 1..Len(ls) |-> shaft_width(ls[i])],
          shaft_width                 |-> shaft_width(ls[1]),
          num_lifts_bank2             |-> Len(ls2),
          shaft_depths_bank2          |-> depths2,
          max_shaft_depth_bank2       |-> IF is_facing THEN max(depths2) ELSE 0,
          shaft_widths_bank2          |-> [i \in 1..Len(ls2) |-> shaft_width(ls2[i])],
          separator_type_bank2        |-> IF is_facing THEN sep2 ELSE "unset",
          shared_wall_thickness_bank2 |-> IF ~is_facing THEN 0
                                          ELSE IF sep2 = "steel_beam" THEN steel
                                          ELSE or(a.shared_wall_thickness, wt),
          total_width |-> 0, total_depth |-> 0, bank1_width |-> 0, bank2_width |-> 0,
          bank1_y |-> 0, bank2_y |-> 0 ]

\* Attributes of a sketch built from plain numbers (simple API).
SimpleSketch(a) ==
    LET n == Max(1, a.num_lifts)
        sw == or(a.shaft_width, config.DEFAULT_SHAFT_WIDTH)
        sd == or(a.shaft_depth, config.DEFAULT_SHAFT_DEPTH)
    IN  [ is_facing                   |-> FALSE,
          use_enhanced_api            |-> FALSE,
          is_common_shaft             |-> a.is_common_shaft,
          lobby_width                 |-> or(a.lobby_width, config.DEFAULT_LOBBY_WIDTH),
          num_lifts                   |-> n,
          shaft_depth                 |-> sd,
          shaft_depths                |-> [i \in 1..n |-> sd],
          max_shaft_depth             |-> sd,
          wall_thickness              |-> or(a.wall_thickness, config.DEFAULT_WALL_THICKNESS),
          separator_type              |-> "rcc_wall",
          shared_wall_thickness       |-> or(a.shared_wall_thickness,
                                             config.DEFAULT_SHARED_WALL_THICKNESS),
          shaft_widths                |-> [i \in 1..n |-> sw],
          shaft_width                 |-> sw,
          door_width                  |-> config.DEFAULT_DOOR_WIDTH,
          structural_opening_width    |-> config.DEFAULT_STRUCTURAL_OPENING_WIDTH,
          num_lifts_bank2             |-> 0,
          shaft_depths_bank2          |-> << >>,
          max_shaft_depth_bank2       |-> 0,
          shaft_widths_bank2          |-> << >>,
          separator_type_bank2        |-> "unset",
          shared_wall_thickness_bank2 |-> 0,
          total_width |-> 0, total_depth |-> 0, bank1_width |-> 0, bank2_width |-> 0,
          bank1_y |-> 0, bank2_y |-> 0 ]

\* LiftShaftSketch.__init__ that does not check the fire lift positions
\* (the check left to drawing time).
LiftShaftSketchInit_NoPositionCheck(a, ls, ls2) ==
    IF BankCountRaises(ls, ls2)
    THEN [outcome |-> "ValueError", obj |-> NoSketch]
    ELSE IF Len(ls) > 0
    THEN IF ShaftWidthRaises(ls) \/ ShaftWidthRaises(ls2)
         THEN [outcome |-> "AttributeError", obj |-> NoSketch]
         ELSE [outcome |-> "ok", obj |-> calculate_geometry(EnhancedSketch(a, ls, ls2))]
    ELSE IF Len(ls2) > 0
         THEN [outcome |-> "AttributeError", obj |-> NoSketch]
         ELSE [outcome |-> "ok", obj |-> calculate_geometry(SimpleSketch(a))]

\* LiftShaftSketch(lifts=ls, lifts_bank2=ls2, **a): the outcome of the
\* constructor call and the object.  An empty list stands for None as well
\* (the code tests both with "lifts and ..." / "is not None and len > 0").
LiftShaftSketchInit(a, ls, ls2) ==
    IF BankCountRaises(ls, ls2)
    THEN [outcome |-> "ValueError", obj |-> NoSketch]
    ELSE IF Len(ls) > 0
    THEN IF validate_fire_lift_positions(ls) # "ok"
         THEN [outcome |-> "ValueError", obj |-> NoSketch]
         ELSE IF ShaftWidthRaises(ls)
         THEN [outcome |-> "AttributeError", obj |-> NoSketch]
         ELSE IF Len(ls2) > 0 /\ validate_fire_lift_positions(ls2) # "ok"
         THEN [outcome |-> "ValueError", obj |-> NoSketch]
         ELSE IF ShaftWidthRaises(ls2)
         THEN [outcome |-> "AttributeError", obj |-> NoSketch]
         ELSE [outcome |-> "ok", obj |-> calculate_geometry(EnhancedSketch(a, ls, ls2))]
    ELSE IF Len(ls2) > 0
         \* simple API with a second bank: _calculate_geometry reads
         \* num_lifts_bank2, which only the enhanced branch sets
         THEN [outcome |-> "AttributeError", obj |-> NoSketch]
         ELSE [outcome |-> "ok", obj |-> calculate_geometry(SimpleSketch(a))]

\* Index (from 0) of the first fire lift validate_fire_lift_positions meets
\* at an index other than 0: the one its message names.
first_misplaced(ls) ==
    CHOOSE idx \in 1..(Len(ls) - 1) :
        /\ ls[idx + 1].lift_type = "fire"
        /\ \A j \in 1..(idx - 1) : ls[j + 1].lift_type # "fire"

\* The messages of the ValueError __init__ raises: each raise statement
\* carries one message and ends the constructor.
InitErrors(ls, ls2) ==
    IF Len(ls) > 4 THEN << Msg("bank_count", 1, Len(ls)) >>
    ELSE IF Len(ls2) > 4 THEN << Msg("bank_count", 2, Len(ls2)) >>
    ELSE IF Len(ls) = 0 THEN << >>
    ELSE IF validate_fire_lift_positions(ls) # "ok"
    THEN << Msg("fire_position", 1, first_misplaced(ls)) >>
    ELSE IF ShaftWidthRaises(ls) THEN << >>
    ELSE IF Len(ls2) > 0 /\ validate_fire_lift_positions(ls2) # "ok"
    THEN << Msg("fire_position", 2, first_misplaced(ls2)) >>
    ELSE << >>

(***************************************************************************)
(* Drawing: the shapes _draw_sketch puts on the axes under the default     *)
(* display options (brackets, door panels and lift doors shown)            *)
(***************************************************************************)

\* Drawing coordinates count half units, so that every "/ 2" of the drawing
\* code is exact: px(x) is the coordinate of the length x.
px(x) == 2 * x

\* draw_wall_section(ax, x, y, width, height) and the other rectangles.
Rect(x, y, w, h) == [x |-> x, y |-> y, w |-> w, h |-> h]

\* The mirror flag never set: every lift drawn in the normal orientation.
mirror_Never(lift_idx) == FALSE

\* Odd-indexed lifts (lift_idx from 0) are drawn mirrored.
mirror(lift_idx) == lift_idx % 2 = 1

\* Car centre the bank drawing code computes for the front wall opening
\* (the same statements in _draw_single_lift, with mirror False, and in
\* _draw_multi_lift_bank).
car_center_x(shaft_left, sw, lc, mir) ==
    LET uc_width == unfinished_car_width(lc)
    IN  IF lc.lift_machine_type = "mra"
        THEN LET left_cb == lc.mra_car_bracket_width
                 right_cb == mra_right_bracket_width(lc)
                 available == sw - left_cb - right_cb
             IN  shaft_left + px(left_cb) + (px(available) - px(uc_width)) \div 2
                 + px(uc_width) \div 2
        ELSE LET cwb_width == lc.counterweight_bracket_width
                 cb_width == lc.car_bracket_width
                 available == sw - cwb_width - cb_width
             IN  IF ~mir
                 THEN shaft_left + px(cwb_width) + (px(available) - px(uc_width)) \div 2
                      + px(uc_width) \div 2
                 ELSE shaft_left + px(cb_width) + (px(available) - px(uc_width)) \div 2
                      + px(uc_width) \div 2

\* Front wall opening and door panels of one lift drawn from a LiftConfig.
front_opening(shaft_left, sw, lc, mir) ==
    LET ccx == car_center_x(shaft_left, sw, lc, mir)
        door_center_x == IF lc.lift_type = "fire" THEN shaft_left + px(sw) \div 2 ELSE ccx
    IN  [ car_center_x  |-> ccx,
          door_center_x |-> door_center_x,
          opening_x     |-> door_center_x - px(lc.structural_opening_width) \div 2,
          sow           |-> px(lc.structural_opening_width),
          door_x        |-> door_center_x - px(lc.door_width) \div 2,
          dw            |-> px(lc.door_width) ]

\* Simple API: the opening is centred on the shaft.
simple_front_opening(shaft_left, sw, sk) ==
    LET ccx == shaft_left + px(sw) \div 2
    IN  [ car_center_x  |-> ccx,
          door_center_x |-> ccx,
          opening_x     |-> shaft_left + (px(sw) - px(sk.structural_opening_width)) \div 2,
          sow           |-> px(sk.structural_opening_width),
          door_x        |-> ccx - px(sk.door_width) \div 2,
          dw            |-> px(sk.door_width) ]

\* Nothing drawn inside the shaft (simple API: no LiftConfig).
NoInterior ==
    [ lift_doors_center_x |-> None, car_x |-> None, cw_align |-> "none",
      cw_bracket_x |-> None, cw_bracket_w |-> None, cw_box_x |-> None,
      cw_box_w |-> None, car_bracket_box_x |-> None ]

\* draw_counterweight_bracket: the box, of a fixed width, put against the
\* left or the right edge of the bracket space [x, x + width].
draw_counterweight_bracket(x, width, align) ==
    LET box_width == config.CW_BOX_WIDTH - config.CW_FRAME_THICKNESS
    IN  [ box_x |-> IF align = "left" THEN x ELSE x + px(width) - px(box_width),
          box_w |-> px(box_width) ]

\* _draw_lift_interior_mra / _draw_lift_interior_mra_mirrored: the lift
\* doors are centred on the car, the counterweight bracket is at the rear.
lift_interior_mra(shaft_x, lc) ==
    LET left_cb == lc.mra_car_bracket_width
        right_cb == mra_right_bracket_width(lc)
        uc_width == unfinished_car_width(lc)
        available_w == shaft_width(lc) - left_cb - right_cb
        car_x == shaft_x + px(left_cb) + (px(available_w) - px(uc_width)) \div 2
    IN  [ lift_doors_center_x |-> car_x + px(uc_width) \div 2,
          car_x               |-> car_x,
          cw_align            |-> "rear",
          cw_bracket_x        |-> shaft_x,
          cw_bracket_w        |-> px(shaft_width(lc)),
          cw_box_x            |-> None,
          cw_box_w            |-> None,
          car_bracket_box_x   |-> None ]

\* _draw_lift_interior / _draw_lift_interior_mirrored: horizontal placement
\* of the lift doors, counterweight bracket, car bracket box and car.
lift_interior(shaft_x, lc, mir) ==
    IF lc.lift_machine_type = "mra" THEN lift_interior_mra(shaft_x, lc)
    ELSE LET cwb_width == lc.counterweight_bracket_width
             cb_width == lc.car_bracket_width
             uc_width == unfinished_car_width(lc)
             sw == shaft_width(lc)
             available == sw - cwb_width - cb_width
             car_x == IF ~mir
                      THEN shaft_x + px(cwb_width) + (px(available) - px(uc_width)) \div 2
                      ELSE shaft_x + px(cb_width) + (px(available) - px(uc_width)) \div 2
             ccx == car_x + px(uc_width) \div 2
         IN  [ lift_doors_center_x |-> IF lc.lift_type = "fire"
                                       THEN shaft_x + px(sw) \div 2 ELSE ccx,
               car_x               |-> car_x,
               cw_align            |-> IF ~mir THEN "left" ELSE "right",
               cw_bracket_x        |-> IF ~mir THEN shaft_x
                                       ELSE shaft_x + px(cb_width) + px(uc_width),
               cw_bracket_w        |-> px(cwb_width),
               cw_box_x            |-> IF ~mir
                                       THEN draw_counterweight_bracket(shaft_x, cwb_width, "left").box_x
                                       ELSE draw_counterweight_bracket(
                                                shaft_x + px(cb_width) + px(uc_width),
                                                cwb_width, "right").box_x,
               cw_box_w            |-> draw_counterweight_bracket(shaft_x, cwb_width, "left").box_w,
               car_bracket_box_x   |-> IF ~mir
                                       THEN shaft_x + px(sw) - px(config.CAR_BRACKET_BOX_WIDTH)
                                       ELSE shaft_x ]

Min(a, b) == IF a <= b THEN a ELSE b

\* separator_depth taking the previous shaft's depth, not the shallower one.
separator_depth_PrevDepth(prev_depth, curr_depth) == prev_depth

\* The separator extends to the shallower of the two adjacent depths.
separator_depth(prev_depth, curr_depth) == Min(prev_depth, curr_depth)

\* The separator between lift_idx - 1 and lift_idx and the wall pieces
\* drawn with it: the steel beam or RCC wall over the shallower depth, for
\* a steel beam the front and back wall sections capping it, and the
\* L-shape wall continuing the deeper shaft's side (_draw_bank; in
\* _draw_multi_lift_bank the same statements with base_y = 0, doors down).
draw_separator(x_pos, base_y, wt, swt, prev_depth, curr_depth, max_shaft_depth, separator_type, doors_face) ==
    LET sep_depth == separator_depth(prev_depth, curr_depth)
        wall_x == IF prev_depth > curr_depth THEN x_pos ELSE x_pos + px(swt) - px(wt)
        deeper == Max(prev_depth, curr_depth)
        shallower == Min(prev_depth, curr_depth)
    IN  IF separator_type = "steel_beam"
        THEN IF doors_face = "down"
             THEN [ type      |-> separator_type,
                    separator |-> Rect(x_pos, base_y + px(wt), px(swt), px(sep_depth)),
                    caps      |-> << Rect(x_pos, base_y, px(swt), px(wt)),
                                     Rect(x_pos, base_y + px(wt) + px(sep_depth),
                                          px(swt), px(wt)) >>,
                    lshape    |-> IF prev_depth = curr_depth THEN << >>
                                  ELSE << Rect(wall_x,
                                               base_y + px(wt) + px(sep_depth) + px(wt),
                                               px(wt), px(deeper - sep_depth)) >> ]
             ELSE [ type      |-> separator_type,
                    separator |-> Rect(x_pos,
                                       base_y + px(wt) + px(max_shaft_depth - sep_depth),
                                       px(swt), px(sep_depth)),
                    caps      |-> << Rect(x_pos, base_y + px(wt) + px(max_shaft_depth),
                                          px(swt), px(wt)),
                                     Rect(x_pos, base_y + px(max_shaft_depth - sep_depth),
                                          px(swt), px(wt)) >>,
                    lshape    |-> IF prev_depth = curr_depth THEN << >>
                                  ELSE << Rect(wall_x, base_y + px(max_shaft_depth - deeper),
                                               px(wt), px(deeper - shallower)) >> ]
        ELSE IF doors_face = "down"
             THEN [ type      |-> separator_type,
                    separator |-> Rect(x_pos, base_y, px(swt), px(sep_depth + 2 * wt)),
                    caps      |-> << >>,
                    lshape    |-> IF prev_depth = curr_depth THEN << >>
                                  ELSE << Rect(wall_x, base_y + px(sep_depth + 2 * wt),
                                               px(wt), px(deeper - sep_depth)) >> ]
             ELSE [ type      |-> separator_type,
                    separator |-> Rect(x_pos, base_y + px(max_shaft_depth - sep_depth),
                                       px(swt), px(sep_depth + 2 * wt)),
                    caps      |-> << >>,
                    lshape    |-> IF prev_depth = curr_depth THEN << >>
                                  ELSE << Rect(wall_x, base_y + px(max_shaft_depth - deeper),
                                               px(wt), px(deeper - shallower)) >> ]

\* Left edge of the shaft interior of lift k (k from 1): the outer wall,
\* then the shafts and separators before it (x_pos as the loop advances it).
RECURSIVE shaft_left_of(_, _, _, _, _)
shaft_left_of(k, x_offset, wt, swt, shaft_widths) ==
    IF k = 1 THEN x_offset + px(wt)
    ELSE shaft_left_of(k - 1, x_offset, wt, swt, shaft_widths)
         + px(shaft_widths[k - 1]) + px(swt)

\* The car is not placed in depth as the code places it: centred between
\* the front and the rear of the shaft instead of anchored to the door zone.
car_position_Centred(shaft_y, sd, lc, doors_face) ==
    LET uc_depth == unfinished_car_depth(lc)
    IN  [ shaft_y      |-> shaft_y,
          car_y        |-> shaft_y + (px(sd) - px(uc_depth)) \div 2,
          car_d        |-> px(uc_depth),
          cw_bracket_y |-> IF lc.lift_machine_type # "mra" THEN None
                           ELSE IF doors_face = "down"
                                THEN shaft_y + px(sd) - px(lc.mra_cw_bracket_depth)
                                ELSE shaft_y,
          cw_bracket_d |-> IF lc.lift_machine_type # "mra" THEN None
                           ELSE px(lc.mra_cw_bracket_depth) ]

\* Front-to-back placement of the car (and of the MRA counterweight bracket
\* at the rear) in a shaft interior that starts at shaft_y and is sd deep:
\* _draw_lift_interior, _draw_lift_interior_mra (doors down) and their
\* _mirrored variants (doors up).
car_position(shaft_y, sd, lc, doors_face) ==
    LET door_zone == 2 * lc.door_panel_thickness + config.DEFAULT_DOOR_GAP
        uc_depth == unfinished_car_depth(lc)
    IN  [ shaft_y      |-> shaft_y,
          car_y        |-> IF doors_face = "down"
                           THEN shaft_y + px(door_zone)
                           ELSE shaft_y + px(sd) - px(door_zone) - px(uc_depth),
          car_d        |-> px(uc_depth),
          cw_bracket_y |-> IF lc.lift_machine_type # "mra" THEN None
                           ELSE IF doors_face = "down"
                                THEN shaft_y + px(sd) - px(lc.mra_cw_bracket_depth)
                                ELSE shaft_y,
          cw_bracket_d |-> IF lc.lift_machine_type # "mra" THEN None
                           ELSE px(lc.mra_cw_bracket_depth) ]

\* No car drawn (simple API: no LiftConfig).
NoCar(shaft_y) ==
    [ shaft_y |-> shaft_y, car_y |-> None, car_d |-> None,
      cw_bracket_y |-> None, cw_bracket_d |-> None ]

\* One lift as drawn: its shaft, front opening, interior and back wall.
lift_drawing(k, shaft_left, sw, sd, mir, fo, interior, cp, back_wall_y, wt) ==
    [ lift_idx            |-> k - 1,
      shaft_left          |-> shaft_left,
      sw                  |-> px(sw),
      sd                  |-> px(sd),
      mirror              |-> mir,
      car_center_x        |-> fo.car_center_x,
      door_center_x       |-> fo.door_center_x,
      opening_x           |-> fo.opening_x,
      sow                 |-> fo.sow,
      door_x              |-> fo.door_x,
      dw                  |-> fo.dw,
      lift_doors_center_x |-> interior.lift_doors_center_x,
      car_x               |-> interior.car_x,
      cw_align            |-> interior.cw_align,
      cw_bracket_x        |-> interior.cw_bracket_x,
      cw_bracket_w        |-> interior.cw_bracket_w,
      cw_box_x            |-> interior.cw_box_x,
      cw_box_w            |-> interior.cw_box_w,
      car_bracket_box_x   |-> interior.car_bracket_box_x,
      shaft_y             |-> cp.shaft_y,
      car_y               |-> cp.car_y,
      car_d               |-> cp.car_d,
      cw_bracket_y        |-> cp.cw_bracket_y,
      cw_bracket_d        |-> cp.cw_bracket_d,
      back_wall           |-> Rect(shaft_left, back_wall_y, px(sw), px(wt)) ]

\* _draw_bank: one bank of a facing arrangement, centred in total_width.
draw_bank(sk, bank, ls, shaft_widths, shaft_depths, max_shaft_depth, base_y, bank_w, swt, separator_type, doors_face) ==
    LET wt == sk.wall_thickness
        num_lifts == Len(ls)
        x_offset == (px(sk.total_width) - px(bank_w)) \div 2
        left(k) == shaft_left_of(k, x_offset, wt, swt, shaft_widths)
        wall_y(d) == IF doors_face = "down" THEN base_y
                     ELSE base_y + px(max_shaft_depth - d)
    IN  [ bank       |-> bank,
          doors_face |-> doors_face,
          base_y     |-> base_y,
          left_wall  |-> Rect(x_offset, wall_y(shaft_depths[1]), px(wt),
                              px(shaft_depths[1] + 2 * wt)),
          lifts      |-> [ k \in 1..num_lifts |->
                             lift_drawing(k, left(k), shaft_widths[k], shaft_depths[k],
                                 mirror(k - 1),
                                 front_opening(left(k), shaft_widths[k], ls[k], mirror(k - 1)),
                                 lift_interior(left(k), ls[k], mirror(k - 1)),
                                 car_position(IF doors_face = "down" THEN base_y + px(wt)
                                              ELSE base_y + px(wt)
                                                   + px(max_shaft_depth - shaft_depths[k]),
                                              shaft_depths[k], ls[k], doors_face),
                                 IF doors_face = "down"
                                 THEN base_y + px(wt) + px(shaft_depths[k])
                                 ELSE base_y + px(max_shaft_depth - shaft_depths[k]),
                                 wt) ],
          separators |-> [ k \in 1..(num_lifts - 1) |->
                             draw_separator(left(k) + px(shaft_widths[k]), base_y, wt, swt,
                                 shaft_depths[k], shaft_depths[k + 1], max_shaft_depth,
                                 separator_type, doors_face) ],
          right_wall |-> Rect(left(num_lifts) + px(shaft_widths[num_lifts]),
                              wall_y(shaft_depths[num_lifts]), px(wt),
                              px(shaft_depths[num_lifts] + 2 * wt)) ]

\* _draw_multi_lift_bank: an inline bank of two or more lifts, from x = 0.
draw_multi_lift_bank(sk, ls) ==
    LET wt == sk.wall_thickness
        swt == sk.shared_wall_thickness
        left(k) == shaft_left_of(k, 0, wt, swt, sk.shaft_widths)
    IN  [ bank       |-> 1,
          doors_face |-> "down",
          base_y     |-> 0,
          left_wall  |-> Rect(0, 0, px(wt), px(sk.shaft_depths[1] + 2 * wt)),
          lifts      |-> [ k \in 1..sk.num_lifts |->
                             lift_drawing(k, left(k), sk.shaft_widths[k], sk.shaft_depths[k],
                                 mirror(k - 1),
                                 IF sk.use_enhanced_api
                                 THEN front_opening(left(k), sk.shaft_widths[k], ls[k],
                                                    mirror(k - 1))
                                 ELSE simple_front_opening(left(k), sk.shaft_widths[k], sk),
                                 IF sk.use_enhanced_api
                                 THEN lift_interior(left(k), ls[k], mirror(k - 1))
                                 ELSE NoInterior,
                                 IF sk.use_enhanced_api
                                 THEN car_position(px(wt), sk.shaft_depths[k], ls[k], "down")
                                 ELSE NoCar(px(wt)),
                                 px(wt) + px(sk.shaft_depths[k]), wt) ],
          separators |-> [ k \in 1..(sk.num_lifts - 1) |->
                             draw_separator(left(k) + px(sk.shaft_widths[k]), 0, wt, swt,
                                 sk.shaft_depths[k], sk.shaft_depths[k + 1],
                                 sk.max_shaft_depth, sk.separator_type, "down") ],
          right_wall |-> Rect(left(sk.num_lifts) + px(sk.shaft_widths[sk.num_lifts]), 0,
                              px(wt), px(sk.shaft_depths[sk.num_lifts] + 2 * wt)) ]

\* _draw_single_lift: one shaft between two outer walls of the total depth.
\* One dimension line along the top edge: dim_y = y1 + offset.
dimension_line(name, x1, x2, y1, offset) ==
    [ name |-> name, x1 |-> x1, x2 |-> x2, dim_y |-> y1 + offset ]

\* _draw_single_lift_dimensions: the horizontal dimension lines above the
\* shaft, in the order the code draws them.
single_lift_dimensions(sk, ls) ==
    LET wt == sk.wall_thickness
        sw == sk.shaft_widths[1]
        shaft_top_y == px(wt) + px(sk.shaft_depth)
        shaft_line == dimension_line("Shaft Width", px(wt), px(wt) + px(sw),
                                     shaft_top_y, px(mm(250) + wt))
    IN  IF ~sk.use_enhanced_api THEN << shaft_line >>
        ELSE LET lift == ls[1]
                 mra == lift.lift_machine_type = "mra"
                 left_w == IF mra THEN lift.mra_car_bracket_width
                           ELSE lift.counterweight_bracket_width
                 right_w == IF mra THEN mra_right_bracket_width(lift)
                            ELSE lift.car_bracket_width
                 uc_width == unfinished_car_width(lift)
                 available_w == shaft_width(lift) - left_w - right_w
                 car_x == px(wt) + px(left_w) + (px(available_w) - px(uc_width)) \div 2
                 car_y == px(wt) + px(2 * lift.door_panel_thickness + config.DEFAULT_DOOR_GAP)
                 finished_car_x == car_x + (px(uc_width) - px(lift.finished_car_width)) \div 2
                 car_top_y == car_y + px(unfinished_car_depth(lift))
                 finished_car_top_y == car_y + px(lift.finished_car_depth)
                 level2_target_y == shaft_top_y + px(mm(550) + wt)
                 level3_target_y == shaft_top_y + px(mm(850) + wt)
                 left_end == IF mra THEN car_x ELSE px(wt) + px(left_w)
                 right_start == IF mra THEN car_x + px(uc_width)
                                ELSE px(wt) + px(left_w) + px(uc_width)
             IN  << shaft_line,
                    dimension_line("left bracket", px(wt), left_end,
                                   shaft_top_y, level2_target_y - shaft_top_y),
                    dimension_line("right bracket", right_start,
                                   px(wt) + px(shaft_width(lift)),
                                   shaft_top_y, level2_target_y - shaft_top_y),
                    dimension_line("Finished Car Width", finished_car_x,
                                   finished_car_x + px(lift.finished_car_width),
                                   finished_car_top_y, level2_target_y - finished_car_top_y),
                    dimension_line("Unfinished Car Width", car_x, car_x + px(uc_width),
                                   car_top_y, level3_target_y - car_top_y) >>

draw_single_lift(sk, ls) ==
    LET wt == sk.wall_thickness
        sw == sk.shaft_widths[1]
        sd == sk.shaft_depth
    IN  [ bank       |-> 1,
          doors_face |-> "down",
          base_y     |-> 0,
          left_wall  |-> Rect(0, 0, px(wt), px(sk.total_depth)),
          lifts      |-> << lift_drawing(1, px(wt), sw, sd, FALSE,
                                IF sk.use_enhanced_api
                                THEN front_opening(px(wt), sw, ls[1], FALSE)
                                ELSE simple_front_opening(px(wt), sw, sk),
                                IF sk.use_enhanced_api
                                THEN lift_interior(px(wt), ls[1], FALSE)
                                ELSE NoInterior,
                                IF sk.use_enhanced_api
                                THEN car_position(px(wt), sd, ls[1], "down")
                                ELSE NoCar(px(wt)),
                                px(wt) + px(sd), wt) >>,
          separators |-> << >>,
          right_wall |-> Rect(px(wt) + px(sw), 0, px(wt), px(sk.total_depth)),
          top_dimensions |-> single_lift_dimensions(sk, ls) ]

\* _draw_sketch / _draw_facing_banks: the drawing of bank 1.
draw_bank1(sk, ls) ==
    IF sk.is_facing
    THEN draw_bank(sk, 1, ls, sk.shaft_widths, sk.shaft_depths, sk.max_shaft_depth,
                   px(sk.bank1_y), sk.bank1_width, sk.shared_wall_thickness,
                   sk.separator_type, "down")
    ELSE IF sk.num_lifts = 1 THEN draw_single_lift(sk, ls)
    ELSE draw_multi_lift_bank(sk, ls)

\* _draw_facing_banks: the drawing of bank 2, doors facing up to the lobby.
draw_bank2(sk, ls2) ==
    draw_bank(sk, 2, ls2, sk.shaft_widths_bank2, sk.shaft_depths_bank2,
              sk.max_shaft_depth_bank2, px(sk.bank2_y), sk.bank2_width,
              sk.shared_wall_thickness_bank2, sk.separator_type_bank2, "up")

\* st.session_state before anything is stored in it.  Lengths in the web
\* app are whole millimetres (every widget value is an int).
EmptySessionState ==
    [ shaft_width |-> None, width |-> None, cw_bracket |-> None,
      car_bracket |-> None, avail_w |-> None,
      generated_image |-> "None", generation_error |-> "None",
      section_generated_image |-> "None", section_generation_error |-> "None" ]

\* No script run of the web app yet.
NoPage ==
    [ view |-> "none", outcome |-> "none", brackets_shown |-> FALSE,
      has_errors |-> FALSE, button_shown |-> FALSE, generate_btn |-> FALSE,
      press |-> "none", image_shown |-> FALSE ]

\* No LiftSectionSketch constructed / nothing drawn.
NoSectionSketch == [ machine_type |-> "none" ]

NoSectionDrawing == [ drawn |-> FALSE ]

(***************************************************************************)
(* State                                                                   *)
(***************************************************************************)
VARIABLES
    kwargs,            \* fields passed to the most recent LiftConfig(...) call
    result,            \* what that call did: outcome, messages, object
    lifts,             \* bank 1 list the caller has built
    lifts_bank2,       \* bank 2 list the caller has built
    sketch,            \* the LiftShaftSketch, or NoSketch
    pc,                \* where the caller is
    validationsRun,    \* constructor validations that ran to completion
    validationFailed,  \* some constructor validation found a violation
    drawCalls,         \* _draw_* calls issued on the figure
    sketch_errors,     \* messages of the ValueError LiftShaftSketch(...) raised
    drawing,           \* the banks drawn on the figure so far
    session_state,     \* st.session_state of the web app (None: key absent)
    page,              \* what the last script run of the web app rendered
    section_sketch,    \* the LiftSectionSketch, or NoSectionSketch
    section_drawing,   \* what _draw_section put on the figure
    image              \* what the caller received: "none", "file" or "bytes"

vars == << kwargs, result, lifts, lifts_bank2, sketch, pc,
           validationsRun, validationFailed, drawCalls, sketch_errors, drawing,
           image, session_state, page, section_sketch, section_drawing >>

\* No constructor call made yet.
NoResult == [outcome |-> "none", errors |-> << >>, obj |-> NoObject]

With(overrides) == [f \in DOMAIN LiftConfigDefaults |->
                       IF f \in DOMAIN overrides THEN overrides[f] ELSE LiftConfigDefaults[f]]

(***************************************************************************)
(* Inputs of a single LiftConfig(...) call                                 *)
(***************************************************************************)
CarSizes ==
    { <<mm(1900), mm(1600)>>, <<mm(1400), mm(2400)>>,
      <<mm(1400) + 1, mm(2400)>>, <<mm(1550), mm(2300)>> }

\* Bracket fields: the MRL pair or the MRA triple is varied, the other kept default.
BracketChoices ==
    { [lift_machine_type |-> "mrl", counterweight_bracket_width |-> cw, car_bracket_width |-> cb]
        : cw \in {mm(600), mm(625)}, cb \in {mm(350), mm(375)} }
    \cup
    { [lift_machine_type |-> "mra", mra_car_bracket_width |-> l,
       mra_car_bracket_width_right |-> r, mra_cw_bracket_depth |-> d]
        : l \in {mm(300), mm(325)}, r \in {None, mm(300)}, d \in {mm(375), mm(400)} }

WidthOverrides == { None, mm(1000), mm(2600), mm(2700), mm(2950), mm(3200) }
DepthOverrides == { None, mm(2100), mm(2200), mm(2300), mm(3200) }
OpeningWidths  == { mm(1150), mm(1300), mm(3100) }
DoorWidths     == { mm(1100), mm(1400) }
DoorTypes      == { "centre", "telescopic", "sliding" }
TelescopicExts == { <<None, None>>, <<mm(700), mm(100)>> }

ConfigInputs ==
    { [ With(b) EXCEPT
          !.lift_type = lt,
          !.finished_car_width = sz[1],
          !.finished_car_depth = sz[2],
          !.shaft_width_override = wo,
          !.shaft_depth_override = do,
          !.structural_opening_width = sow,
          !.door_width = dw,
          !.door_opening_type = dt,
          !.telescopic_left_ext = te[1],
          !.telescopic_right_ext = te[2] ]
      : lt \in {"passenger", "fire"}, sz \in CarSizes, b \in BracketChoices,
        wo \in WidthOverrides, do \in DepthOverrides, sow \in OpeningWidths,
        dw \in DoorWidths, dt \in DoorTypes, te \in TelescopicExts }

(***************************************************************************)
(* Specification of one LiftConfig(...) call                               *)
(***************************************************************************)
InitConfig ==
    /\ kwargs \in ConfigInputs
    /\ result = NoResult
    /\ lifts = << >>
    /\ lifts_bank2 = << >>
    /\ sketch = NoSketch
    /\ pc = "call"
    /\ validationsRun = 0
    /\ validationFailed = FALSE
    /\ drawCalls = 0
    /\ sketch_errors = << >>
    /\ drawing = << >>
    /\ image = "none"
    /\ session_state = EmptySessionState
    /\ page = NoPage
    /\ section_sketch = NoSectionSketch
    /\ section_drawing = NoSectionDrawing

\* LiftConfig(**kwargs): the dataclass sets the fields and runs __post_init__.
Construct ==
    /\ pc = "call"
    /\ result' = post_init(kwargs)
    /\ pc' = IF result'.outcome = "ok" THEN "constructed" ELSE "raised"
    /\ validationsRun' = IF result'.outcome = "AttributeError" THEN 0 ELSE 1
    /\ validationFailed' = (result'.outcome = "ValueError")
    /\ UNCHANGED << session_state, page, section_sketch, section_drawing,
                    kwargs, lifts, lifts_bank2, sketch, drawCalls, image, sketch_errors, drawing >>

NextConfig == Construct

SpecConfig == InitConfig /\ [][NextConfig]_vars

(***************************************************************************)
(* Specification of a whole run: build the lift lists, construct the       *)
(* sketch, then generate() or to_bytes()                                   *)
(***************************************************************************)

\* LiftConfig(...) calls a run makes: two that build, two that raise.
RunInputs ==
    { With([lift_type |-> "passenger"]),
      With([lift_type |-> "fire", finished_car_width |-> mm(1400),
            finished_car_depth |-> mm(2400)]),
      With([counterweight_bracket_width |-> mm(600)]),
      With([door_opening_type |-> "telescopic"]) }

\* Arguments of a LiftShaftSketch(...) call besides the two lists.
SketchArgs ==
    { [ shaft_depth |-> sd, num_lifts |-> n, is_common_shaft |-> cs,
        shaft_width |-> None, wall_thickness |-> None, shared_wall_thickness |-> None,
        lobby_width |-> None, steel_beam_width |-> None ]
      : sd \in {None, 0, mm(2000), mm(3200)}, n \in 0..MaxLifts, cs \in BOOLEAN }

Init ==
    /\ kwargs = LiftConfigDefaults
    /\ result = NoResult
    /\ lifts = << >>
    /\ lifts_bank2 = << >>
    /\ sketch = NoSketch
    /\ pc = "configs"
    /\ validationsRun = 0
    /\ validationFailed = FALSE
    /\ drawCalls = 0
    /\ sketch_errors = << >>
    /\ drawing = << >>
    /\ image = "none"
    /\ session_state = EmptySessionState
    /\ page = NoPage
    /\ section_sketch = NoSectionSketch
    /\ section_drawing = NoSectionDrawing

\* lc = LiftConfig(**kw); bank.append(lc).  A raising constructor ends the run.
NewLift(bank, kw) ==
    /\ pc = "configs"
    /\ Len(IF bank = 1 THEN lifts ELSE lifts_bank2) < MaxLifts
    /\ kwargs' = kw
    /\ result' = post_init(kw)
    /\ validationsRun' = IF result'.outcome = "AttributeError"
                         THEN validationsRun ELSE validationsRun + 1
    /\ validationFailed' = (result'.outcome = "ValueError")
    /\ IF result'.outcome = "ok"
       THEN /\ lifts' = IF bank = 1 THEN Append(lifts, result'.obj) ELSE lifts
            /\ lifts_bank2' = IF bank = 2 THEN Append(lifts_bank2, result'.obj) ELSE lifts_bank2
            /\ pc' = "configs"
       ELSE /\ pc' = "failed"
            /\ UNCHANGED << lifts, lifts_bank2 >>
    /\ UNCHANGED << session_state, page, section_sketch, section_drawing,
                    sketch, drawCalls, image, sketch_errors, drawing >>

\* A violation one of the arrangement checks __init__ reaches finds.
ArrangementViolation(ls, ls2) ==
    \/ BankCountRaises(ls, ls2)
    \/ Len(ls) > 0 /\ validate_fire_lift_positions(ls) # "ok"
    \/ Len(ls) > 0 /\ Len(ls2) > 0 /\ ~ShaftWidthRaises(ls)
       /\ validate_fire_lift_positions(ls2) # "ok"

\* sketch = LiftShaftSketch(lifts=lifts, lifts_bank2=lifts_bank2, **a)
NewSketch(a) ==
    /\ pc = "configs"
    /\ LET r == LiftShaftSketchInit(a, lifts, lifts_bank2)
       IN  /\ sketch' = r.obj
           /\ pc' = IF r.outcome = "ok" THEN "constructed" ELSE "failed"
           /\ validationsRun' = IF r.outcome = "AttributeError"
                                THEN validationsRun ELSE validationsRun + 1
           /\ sketch_errors' = IF r.outcome = "ValueError"
                               THEN InitErrors(lifts, lifts_bank2) ELSE << >>
    /\ validationFailed' = ArrangementViolation(lifts, lifts_bank2)
    /\ UNCHANGED << session_state, page, section_sketch, section_drawing,
                    kwargs, result, lifts, lifts_bank2, drawCalls, image, drawing >>

\* sketch.generate(path): create the figure, then _draw_sketch.
Generate ==
    /\ pc = "constructed"
    /\ pc' = "generate"
    /\ UNCHANGED << session_state, page, section_sketch, section_drawing,
                    kwargs, result, lifts, lifts_bank2, sketch,
                    validationsRun, validationFailed, drawCalls, image, sketch_errors, drawing >>

\* sketch.to_bytes(): create the figure, then _draw_sketch.
ToBytes ==
    /\ pc = "constructed"
    /\ pc' = "to_bytes"
    /\ UNCHANGED << session_state, page, section_sketch, section_drawing,
                    kwargs, result, lifts, lifts_bank2, sketch,
                    validationsRun, validationFailed, drawCalls, image, sketch_errors, drawing >>

\* Number of bank drawing calls _draw_sketch issues for this sketch.
BanksToDraw == IF sketch.is_facing THEN 2 ELSE 1

\* _draw_sketch: _draw_single_lift, _draw_multi_lift_bank, or the first
\* _draw_bank of _draw_facing_banks.
DrawBank1 ==
    /\ pc \in {"generate", "to_bytes"}
    /\ drawCalls = 0
    /\ drawCalls' = 1
    /\ drawing' = << draw_bank1(sketch, lifts) >>
    /\ UNCHANGED << session_state, page, section_sketch, section_drawing,
                    kwargs, result, lifts, lifts_bank2, sketch, pc,
                    validationsRun, validationFailed, image, sketch_errors >>

\* _draw_facing_banks: the second _draw_bank.
DrawBank2 ==
    /\ pc \in {"generate", "to_bytes"}
    /\ sketch.is_facing
    /\ drawCalls = 1
    /\ drawCalls' = 2
    /\ drawing' = Append(drawing, draw_bank2(sketch, lifts_bank2))
    /\ UNCHANGED << session_state, page, section_sketch, section_drawing,
                    kwargs, result, lifts, lifts_bank2, sketch, pc,
                    validationsRun, validationFailed, image, sketch_errors >>

\* fig.savefig(...): the caller receives the file path or the PNG bytes.
Save ==
    /\ pc \in {"generate", "to_bytes"}
    /\ drawCalls = BanksToDraw
    /\ image' = IF pc = "generate" THEN "file" ELSE "bytes"
    /\ pc' = "done"
    /\ UNCHANGED << session_state, page, section_sketch, section_drawing,
                    kwargs, result, lifts, lifts_bank2, sketch,
                    validationsRun, validationFailed, drawCalls, sketch_errors, drawing >>

Next ==
    \/ \E bank \in {1, 2}, kw \in RunInputs : NewLift(bank, kw)
    \/ \E a \in SketchArgs : NewSketch(a)
    \/ Generate
    \/ ToBytes
    \/ DrawBank1
    \/ DrawBank2
    \/ Save

Spec == Init /\ [][Next]_vars

(***************************************************************************)
(* Specification of drawing an arrangement: the two lists are given, the   *)
(* sketch is constructed and to_bytes() draws it                           *)
(***************************************************************************)

\* LiftConfig(...) calls whose objects make up the arrangements drawn:
\* passenger MRL lifts of two depths, a fire MRL lift, a passenger and a
\* fire MRA lift with unequal car brackets.
DrawInputs ==
    << With([lift_type |-> "passenger"]),
       With([shaft_depth_override |-> mm(2600), shaft_width_override |-> mm(3100),
             structural_opening_width |-> mm(3000)]),
       With([lift_machine_type |-> "mra", mra_car_bracket_width_right |-> mm(525)]),
       With([lift_type |-> "fire", finished_car_width |-> mm(1400),
             finished_car_depth |-> mm(2400)]),
       With([lift_type |-> "fire", lift_machine_type |-> "mra",
             finished_car_width |-> mm(1400), finished_car_depth |-> mm(2400),
             mra_car_bracket_width_right |-> mm(525)]) >>

\* Lists of at most n of these calls that LiftShaftSketch accepts: a fire
\* lift, if any, comes first.
DrawLists(n) ==
    { ks \in UNION { [1..m -> 1..Len(DrawInputs)] : m \in 0..n } :
        \A i \in 2..Len(ks) : DrawInputs[ks[i]].lift_type # "fire" }

\* Largest bank 2 drawn.
MaxBank2 == 2

\* Arguments of the LiftShaftSketch(...) call besides the two lists.
DrawSketchArgs ==
    { [ shaft_depth |-> sd, num_lifts |-> 1, is_common_shaft |-> cs,
        shaft_width |-> None, wall_thickness |-> None, shared_wall_thickness |-> None,
        lobby_width |-> lw, steel_beam_width |-> None ]
      : sd \in {None, mm(3200)}, cs \in BOOLEAN, lw \in {None, mm(3000)} }

InitDraw ==
    /\ \E ks \in DrawLists(4) :
          /\ Len(ks) > 0
          /\ lifts = [i \in 1..Len(ks) |-> post_init(DrawInputs[ks[i]]).obj]
          /\ kwargs = DrawInputs[ks[Len(ks)]]
          /\ result = post_init(DrawInputs[ks[Len(ks)]])
    /\ \E ks \in DrawLists(MaxBank2) :
          lifts_bank2 = [i \in 1..Len(ks) |-> post_init(DrawInputs[ks[i]]).obj]
    /\ sketch = NoSketch
    /\ pc = "configs"
    /\ validationsRun = Len(lifts) + Len(lifts_bank2)
    /\ validationFailed = FALSE
    /\ drawCalls = 0
    /\ sketch_errors = << >>
    /\ drawing = << >>
    /\ image = "none"
    /\ session_state = EmptySessionState
    /\ page = NoPage
    /\ section_sketch = NoSectionSketch
    /\ section_drawing = NoSectionDrawing

NextDraw ==
    \/ \E a \in DrawSketchArgs : NewSketch(a)
    \/ ToBytes
    \/ DrawBank1
    \/ DrawBank2
    \/ Save

SpecDraw == InitDraw /\ [][NextDraw]_vars

(***************************************************************************)
(* Validation rules as the specification words them, on the fields the     *)
(* caller passed.  Each names the message that reports it.                 *)
(***************************************************************************)

\* The door width validation looks at: a fire lift's is fixed.
DoorWidthOf(kw) == IF kw.lift_type = "fire" THEN config.FIRE_LIFT_DOOR_WIDTH ELSE kw.door_width

\* Minimum width as far as the defined constants give it: brackets plus
\* unfinished car, raised to the fire minimum for a centre-door fire lift.
WidthFloor(kw) ==
    IF kw.lift_type = "fire" /\ kw.door_opening_type # "telescopic"
    THEN Max(bracket_car_width(kw), config.FIRE_LIFT_MIN_SHAFT_WIDTH)
    ELSE bracket_car_width(kw)

ViolatedRules(kw) ==
    { r \in { "fire_cabin_size", "door_opening_type", "telescopic_non_fire",
              "cw_bracket_width", "car_bracket_width", "mra_left_bracket",
              "mra_right_bracket", "mra_cw_bracket_depth", "shaft_width_below_min",
              "opening_exceeds_shaft_width", "shaft_depth_below_min",
              "rear_clearance_below_min", "door_exceeds_opening" } :
        CASE r = "fire_cabin_size" ->
               /\ kw.lift_type = "fire"
               /\ ~ \E s \in FIRE_LIFT_CABIN_SIZES :
                      kw.finished_car_width = mm(s[1]) /\ kw.finished_car_depth = mm(s[2])
          [] r = "door_opening_type" -> kw.door_opening_type \notin {"centre", "telescopic"}
          [] r = "telescopic_non_fire" ->
               kw.door_opening_type = "telescopic" /\ kw.lift_type # "fire"
          [] r = "cw_bracket_width" ->
               kw.lift_machine_type = "mrl" /\ kw.counterweight_bracket_width < mm(625)
          [] r = "car_bracket_width" ->
               kw.lift_machine_type = "mrl" /\ kw.car_bracket_width < mm(375)
          [] r = "mra_left_bracket" ->
               kw.lift_machine_type = "mra" /\ kw.mra_car_bracket_width < mm(325)
          [] r = "mra_right_bracket" ->
               kw.lift_machine_type = "mra" /\ mra_right_bracket_width(kw) < mm(325)
          [] r = "mra_cw_bracket_depth" ->
               kw.lift_machine_type = "mra" /\ kw.mra_cw_bracket_depth < mm(400)
          [] r = "shaft_width_below_min" ->
               kw.shaft_width_override # None /\ kw.shaft_width_override < WidthFloor(kw)
          [] r = "opening_exceeds_shaft_width" ->
               kw.shaft_width_override # None
               /\ kw.structural_opening_width > kw.shaft_width_override
          [] r = "shaft_depth_below_min" ->
               kw.shaft_depth_override # None /\ kw.shaft_depth_override < min_shaft_depth(kw)
          [] r = "rear_clearance_below_min" ->
               /\ kw.lift_machine_type = "mrl"
               /\ kw.shaft_depth_override # None
               /\ config.DEFAULT_REAR_CLEARANCE + kw.shaft_depth_override - min_shaft_depth(kw)
                    < config.MIN_REAR_CLEARANCE
          [] r = "door_exceeds_opening" -> DoorWidthOf(kw) > kw.structural_opening_width }

\* The rules the messages of the constructor's failure report.
ReportedRules == { result.errors[i].rule : i \in 1..Len(result.errors) }

(***************************************************************************)
(* C1 .. C10                                                               *)
(***************************************************************************)

\* C1: a LiftConfig(...) call either succeeds, with no rule violated, or
\* fails with one message for each violated rule: every rule the passed
\* fields violate is reported by the failure.
C1_EveryViolatedRuleReported ==
    result.outcome # "none" =>
        /\ ViolatedRules(kwargs) \subseteq ReportedRules
        /\ result.outcome = "ok" => ViolatedRules(kwargs) = {}

\* A constructed sketch exists (the caller holds the object).
SketchBuilt == pc \in {"constructed", "generate", "to_bytes", "done"}

\* C2: an explicit shaft width or depth below a lift's computed minimum is
\* never used for a layout: every per-lift width and depth a constructed
\* sketch lays out is at least that lift's minimum.
C2_NoDimensionBelowMinimumLaidOut ==
    (SketchBuilt /\ sketch.use_enhanced_api) =>
        \A i \in 1..Len(lifts) :
            /\ sketch.shaft_widths[i] >= min_shaft_width(lifts[i])
            /\ sketch.shaft_depths[i] >= min_shaft_depth(lifts[i])

\* C3: for every successfully constructed LiftConfig shaft_width and
\* min_shaft_width are values with shaft_width >= min_shaft_width, and
\* without a width override shaft_width = min_shaft_width.
C3_MinimumWidthInvariant ==
    result.outcome = "ok" =>
        LET c == result.obj
        IN  /\ shaft_width(c) # AttributeError
            /\ min_shaft_width(c) # AttributeError
            /\ shaft_width(c) >= min_shaft_width(c)
            /\ c.shaft_width_override = None => shaft_width(c) = min_shaft_width(c)

\* The passed fields violate no rule other than the width floor.
OtherwiseValid(kw) == ViolatedRules(kw) \subseteq {"shaft_width_below_min"}

\* C4: a shaft_width_override below the minimum width always fails with a
\* message naming the supplied value and the minimum; one above the minimum
\* (all else valid) succeeds and shaft_width is the override.
C4_OverrideFloor ==
    (result.outcome # "none" /\ kwargs.shaft_width_override # None) =>
        /\ kwargs.shaft_width_override < WidthFloor(kwargs) =>
              /\ result.outcome = "ValueError"
              /\ \E i \in 1..Len(result.errors) :
                    /\ result.errors[i].rule = "shaft_width_below_min"
                    /\ result.errors[i].a = int(kwargs.shaft_width_override)
                    /\ result.errors[i].b >= int(WidthFloor(kwargs))
        /\ (kwargs.shaft_width_override > WidthFloor(kwargs) /\ OtherwiseValid(kwargs)) =>
              /\ result.outcome = "ok"
              /\ shaft_width(result.obj) = kwargs.shaft_width_override

\* C5: every successfully constructed LiftConfig with a shaft_depth_override
\* has override >= min_shaft_depth, and for MRL a rear clearance (default
\* plus surplus) of at least the minimum rear clearance.
C5_DepthOverrideFloor ==
    (result.outcome = "ok" /\ result.obj.shaft_depth_override # None) =>
        LET c == result.obj
        IN  /\ c.shaft_depth_override >= min_shaft_depth(c)
            /\ c.lift_machine_type = "mrl" =>
                  actual_rear_clearance(c) >= config.MIN_REAR_CLEARANCE

\* C5 witness: an MRL config built with a depth override above its minimum.
C5_Witness ==
    /\ result.outcome = "ok"
    /\ result.obj.lift_machine_type = "mrl"
    /\ result.obj.shaft_depth_override # None
    /\ result.obj.shaft_depth_override > min_shaft_depth(result.obj)

\* The cabin size is exactly one of the whitelisted pairs.
ExactlyWhitelisted(kw) ==
    \E s \in FIRE_LIFT_CABIN_SIZES :
        kw.finished_car_width = mm(s[1]) /\ kw.finished_car_depth = mm(s[2])

\* C6: a fire-type LiftConfig whose cabin size is not exactly one of the
\* three whitelisted pairs never constructs, for any real-valued width and
\* depth.
C6_FireLiftWhitelist ==
    (result.outcome # "none" /\ kwargs.lift_type = "fire" /\ ~ExactlyWhitelisted(kwargs))
        => result.outcome # "ok"

\* A fire lift at an index other than 0 (a position after the first).
FireNotLeading(ls) == \E i \in 2..Len(ls) : ls[i].lift_type = "fire"

\* C7: fire lifts must lead: validate_fire_lift_positions fails exactly for
\* a list with a fire lift at an index other than 0, and no bank of a
\* constructed sketch has a fire lift at an index other than 0.
C7_FireLiftsLead ==
    /\ \A ls \in {lifts, lifts_bank2} :
          validate_fire_lift_positions(ls) = "ValueError" <=> FireNotLeading(ls)
    /\ SketchBuilt => (~FireNotLeading(lifts) /\ ~FireNotLeading(lifts_bank2))

\* C7 witness: a sketch built from [fire, passenger].
C7_Witness ==
    /\ SketchBuilt
    /\ Len(lifts) = 2
    /\ lifts[1].lift_type = "fire"
    /\ lifts[2].lift_type = "passenger"

\* C8: no constructed sketch lays out more than 4 lifts in one bank,
\* whichever way the lift count was supplied.
C8_AtMostFourLiftsPerBank ==
    SketchBuilt => (sketch.num_lifts <= 4 /\ sketch.num_lifts_bank2 <= 4)

\* No lift of the list is fire type.
NoFire(ls) == \A i \in 1..Len(ls) : ls[i].lift_type # "fire"

\* C9: determine_separator_type returns steel_beam exactly when the shaft is
\* common and no lift of the list is fire type, and rcc_wall otherwise; the
\* separator a sketch built from lift lists stores for a bank is that value.
C9_SeparatorPolicy ==
    /\ \A cs \in BOOLEAN : \A ls \in {lifts, lifts_bank2} :
          /\ determine_separator_type(ls, cs) \in {"steel_beam", "rcc_wall"}
          /\ determine_separator_type(ls, cs) = "steel_beam" <=> (cs /\ NoFire(ls))
    /\ (SketchBuilt /\ sketch.use_enhanced_api) =>
          /\ sketch.separator_type = "steel_beam" <=> (sketch.is_common_shaft /\ NoFire(lifts))
          /\ sketch.separator_type # "steel_beam" => sketch.separator_type = "rcc_wall"
          /\ sketch.is_facing =>
                (sketch.separator_type_bank2 = "steel_beam"
                    <=> (sketch.is_common_shaft /\ NoFire(lifts_bank2)))

\* C9 witness: sketches built over a common shaft, one all passenger and
\* one led by a fire lift, are both covered; this is the all-passenger one.
C9_Witness ==
    /\ SketchBuilt
    /\ sketch.use_enhanced_api
    /\ sketch.is_common_shaft
    /\ Len(lifts) >= 2
    /\ NoFire(lifts)
    /\ sketch.separator_type = "steel_beam"

\* C10: every drawing call, and every image handed to the caller, comes
\* after all configuration and arrangement validation has completed without
\* a violation; once a validation has failed no drawing call is issued and
\* the caller receives no image.
C10_ValidationBeforeDrawing ==
    /\ (drawCalls > 0 \/ image # "none") =>
          /\ SketchBuilt
          /\ ~validationFailed
          /\ validationsRun = Len(lifts) + Len(lifts_bank2) + 1
          /\ ~ArrangementViolation(lifts, lifts_bank2)
          /\ \A ls \in {lifts, lifts_bank2} : \A i \in 1..Len(ls) :
                ViolatedRules(ls[i]) = {}
    /\ (validationFailed \/ pc = "failed") => (drawCalls = 0 /\ image = "none")

\* C10 witness: a facing arrangement drawn and returned after validation.
C10_Witness ==
    /\ pc = "done"
    /\ image = "bytes"
    /\ sketch.is_facing
    /\ drawCalls = 2

(***************************************************************************)
(* C11 .. C20                                                              *)
(***************************************************************************)

\* The arrangement rules the two lists violate: a bank holding more than 4
\* lifts, and each fire lift at an index other than 0 of a bank.
ArrangementViolations(ls, ls2) ==
    { <<"bank_count", b, 0>> : b \in { b \in {1, 2} : Len(IF b = 1 THEN ls ELSE ls2) > 4 } }
    \cup { <<"fire_position", 1, i - 1>> : i \in { i \in 2..Len(ls) : ls[i].lift_type = "fire" } }
    \cup { <<"fire_position", 2, i - 1>> : i \in { i \in 2..Len(ls2) : ls2[i].lift_type = "fire" } }

\* C11: when constructing the LiftShaftSketch fails on the arrangement, the
\* failure reports one message for each arrangement violation of the lists.
C11_OneMessagePerArrangementViolation ==
    sketch_errors # << >> =>
        Len(sketch_errors) = Cardinality(ArrangementViolations(lifts, lifts_bank2))

\* C12: the structural opening fits within the shaft width: for every
\* successfully constructed LiftConfig whose shaft_width has a value,
\* structural_opening_width <= shaft_width.
C12_OpeningFitsShaftWidth ==
    (result.outcome = "ok" /\ shaft_width(result.obj) # AttributeError) =>
        result.obj.structural_opening_width <= shaft_width(result.obj)

\* A bracket field of the passed fields is below its machine-type minimum.
BracketBelowMinimum(kw) ==
    \/ /\ kw.lift_machine_type = "mrl"
       /\ \/ kw.counterweight_bracket_width < mm(625)
          \/ kw.car_bracket_width < mm(375)
    \/ /\ kw.lift_machine_type = "mra"
       /\ \/ kw.mra_car_bracket_width < mm(325)
          \/ mra_right_bracket_width(kw) < mm(325)
          \/ kw.mra_cw_bracket_depth < mm(400)

C14_DoorOpeningType ==
    result.outcome # "none" =>
        /\ kwargs.door_opening_type \notin {"centre", "telescopic"} =>
              (result.outcome = "ValueError" /\ "door_opening_type" \in ReportedRules)
        /\ (kwargs.door_opening_type = "telescopic" /\ kwargs.lift_type # "fire") =>
              (result.outcome = "ValueError" /\ "telescopic_non_fire" \in ReportedRules)

\* C15: constructing an otherwise valid fire-type LiftConfig with telescopic
\* doors and no telescopic extensions supplied succeeds, and both
\* extensions are filled (the left one with half the door width plus a
\* fixed extra).
C15_TelescopicDefaultFill ==
    ( /\ result.outcome # "none"
      /\ kwargs.lift_type = "fire"
      /\ kwargs.door_opening_type = "telescopic"
      /\ kwargs.telescopic_left_ext = None
      /\ kwargs.telescopic_right_ext = None
      /\ ViolatedRules(kwargs) = {} ) =>
        /\ result.outcome = "ok"
        /\ result.obj.telescopic_left_ext >= result.obj.door_width \div 2
        /\ result.obj.telescopic_right_ext # None

\* C16: no field value the caller supplied (a value other than the field's
\* default) is replaced by a different value in the constructed LiftConfig.
C16_SuppliedFieldsKept ==
    result.outcome = "ok" =>
        \A f \in DOMAIN kwargs :
            kwargs[f] # LiftConfigDefaults[f] => result.obj[f] = kwargs[f]

\* Width of a bank as the specification gives it: two outer walls, the
\* shafts, and a separator between each two neighbours.
BankWidthOf(ls, wt, swt) ==
    2 * wt + sum([i \in 1..Len(ls) |-> shaft_width(ls[i])]) + (Len(ls) - 1) * swt

\* Depth of a bank: its deepest shaft between the front and the back wall.
BankDepthOf(depths, wt) == max(depths) + 2 * wt

\* C17: in a facing arrangement total_width = max(bank1_width, bank2_width),
\* total_depth = bank1_depth + lobby_width + bank2_depth, and every bank
\* drawn is horizontally centred: its left outer wall starts at
\* (total_width - bank_width) / 2 and its right outer wall ends as far from
\* the right edge.
C17_FacingTotals ==
    (SketchBuilt /\ sketch.is_facing) =>
        LET wt == sketch.wall_thickness
            b1w == BankWidthOf(lifts, wt, sketch.shared_wall_thickness)
            b2w == BankWidthOf(lifts_bank2, wt, sketch.shared_wall_thickness_bank2)
        IN  /\ sketch.total_width = Max(b1w, b2w)
            /\ sketch.total_depth = BankDepthOf(sketch.shaft_depths, wt) + sketch.lobby_width
                                    + BankDepthOf(sketch.shaft_depths_bank2, wt)
            /\ \A k \in 1..Len(drawing) :
                  LET bw == IF drawing[k].bank = 1 THEN b1w ELSE b2w
                  IN  /\ 2 * drawing[k].left_wall.x = px(sketch.total_width) - px(bw)
                      /\ drawing[k].right_wall.x + drawing[k].right_wall.w
                            = drawing[k].left_wall.x + px(bw)

\* C17 witness: both banks of a facing arrangement drawn, bank 2 narrower
\* than bank 1 and so offset, with a supplied lobby width of 3000.
C17_Witness ==
    /\ Len(drawing) = 2
    /\ sketch.lobby_width = mm(3000)
    /\ sketch.bank2_width < sketch.bank1_width
    /\ drawing[2].left_wall.x > 0
    /\ drawing[1].left_wall.x = 0

\* Lowest and highest y of a separator with the wall sections capping it.
SeparatorLow(sp) ==
    IF sp.caps = << >> THEN sp.separator.y
    ELSE Min(sp.separator.y, Min(sp.caps[1].y, sp.caps[2].y))

SeparatorHigh(sp) ==
    IF sp.caps = << >> THEN sp.separator.y + sp.separator.h
    ELSE Max(sp.separator.y + sp.separator.h,
             Max(sp.caps[1].y + sp.caps[1].h, sp.caps[2].y + sp.caps[2].h))

\* Length of the separator along the shafts (an RCC wall also spans the
\* front and the back wall thickness).
SeparatorLength(sp, wt) ==
    IF sp.type = "steel_beam" THEN sp.separator.h ELSE sp.separator.h - 2 * px(wt)

\* The pair k, k+1 of a drawn bank is drawn as an L-shape: separator of the
\* shallower depth, one more wall segment of the depth difference,
\* contiguous with the separator, flush with the deeper shaft's side and
\* reaching the outer face of that shaft's back wall.
LShapeCorrect(d, k, wt) ==
    LET a == d.lifts[k]
        b == d.lifts[k + 1]
        sp == d.separators[k]
        deep == IF a.sd > b.sd THEN a ELSE b
        L == sp.lshape[1]
    IN  /\ SeparatorLength(sp, wt) = Min(a.sd, b.sd)
        /\ Len(sp.lshape) = 1
        /\ L.h = Max(a.sd, b.sd) - Min(a.sd, b.sd)
        /\ IF d.doors_face = "down"
           THEN /\ L.y = SeparatorHigh(sp)
                /\ L.y + L.h = deep.back_wall.y + deep.back_wall.h
           ELSE /\ L.y + L.h = SeparatorLow(sp)
                /\ L.y = deep.back_wall.y
        /\ IF a.sd > b.sd
           THEN L.x = a.shaft_left + a.sw
           ELSE L.x + L.w = b.shaft_left

\* C18: for any two adjacent lifts of a drawn bank with different depths,
\* in an inline layout and in both banks of a facing layout, with either
\* separator type, the separator has length min(d1, d2) and exactly one
\* additional wall segment of length |d1 - d2| is drawn, contiguous with
\* the separator and closing the deeper lift's side up to its back wall.
C18_LShape ==
    \A n \in 1..Len(drawing) :
        \A k \in 1..(Len(drawing[n].lifts) - 1) :
            drawing[n].lifts[k].sd # drawing[n].lifts[k + 1].sd =>
                LShapeCorrect(drawing[n], k, sketch.wall_thickness)

\* C18 witness: a facing layout drawn whose bank 1 has a steel beam between
\* a shallower and then a deeper lift, and whose bank 2 (doors up) has an
\* RCC wall between a deeper and then a shallower lift.
C18_Witness ==
    /\ Len(drawing) = 2
    /\ Len(drawing[1].lifts) >= 2
    /\ drawing[1].separators[1].type = "steel_beam"
    /\ drawing[1].lifts[1].sd < drawing[1].lifts[2].sd
    /\ Len(drawing[2].lifts) >= 2
    /\ drawing[2].separators[1].type = "rcc_wall"
    /\ drawing[2].lifts[1].sd > drawing[2].lifts[2].sd

\* The counterweight bracket of a drawn lift adjoins the left / the right
\* side wall of its shaft.
CwAdjoinsLeft(l) == l.cw_bracket_x = l.shaft_left

CwAdjoinsRight(l) == l.cw_bracket_x + l.cw_bracket_w = l.shaft_left + l.sw

\* A drawn lift is MRL: its counterweight bracket is at a side.
IsMRL(l) == l.cw_align \in {"left", "right"}

\* Bracket sides swap at odd indices: lift idx is mirrored exactly when idx
\* is odd, and a mirrored MRL lift has its counterweight on the right.
ParityRule(d) ==
    \A k \in 1..Len(d.lifts) :
        /\ d.lifts[k].mirror = (d.lifts[k].lift_idx % 2 = 1)
        /\ IsMRL(d.lifts[k]) =>
              d.lifts[k].cw_align = (IF d.lifts[k].mirror THEN "right" ELSE "left")

\* C19 as stated: in every drawn bank of 2 to 4 MRL lifts the sides swap at
\* odd indices and, for every pair of adjacent lifts, neither lift's
\* counterweight bracket is on the side adjoining the separator they share.
C19_MirrorParity_AsStated ==
    \A n \in 1..Len(drawing) :
        LET d == drawing[n]
        IN  (Len(d.lifts) >= 2 /\ \A k \in 1..Len(d.lifts) : IsMRL(d.lifts[k])) =>
                /\ ParityRule(d)
                /\ \A k \in 1..(Len(d.lifts) - 1) :
                      /\ ~CwAdjoinsRight(d.lifts[k])
                      /\ ~CwAdjoinsLeft(d.lifts[k + 1])

\* C19 amended: in every drawn multi-lift bank the sides swap at odd
\* indices; for a pair of adjacent MRL lifts whose left lift has an even
\* index neither counterweight bracket adjoins the shared separator, and
\* for a pair whose left lift has an odd index the right lift's
\* counterweight bracket does adjoin it.
C19_MirrorParity ==
    \A n \in 1..Len(drawing) :
        LET d == drawing[n]
        IN  Len(d.lifts) >= 2 =>
                /\ ParityRule(d)
                /\ \A k \in 1..(Len(d.lifts) - 1) :
                      (IsMRL(d.lifts[k]) /\ IsMRL(d.lifts[k + 1])) =>
                          IF d.lifts[k].lift_idx % 2 = 0
                          THEN /\ ~CwAdjoinsRight(d.lifts[k])
                               /\ ~CwAdjoinsLeft(d.lifts[k + 1])
                          ELSE CwAdjoinsLeft(d.lifts[k + 1])

\* C19 witness: an inline bank of four MRL lifts drawn, the second and the
\* third both with their counterweight at the separator between them.
C19_Witness ==
    /\ Len(drawing) = 1
    /\ Len(drawing[1].lifts) = 4
    /\ \A k \in 1..4 : IsMRL(drawing[1].lifts[k])
    /\ CwAdjoinsRight(drawing[1].lifts[2])
    /\ CwAdjoinsLeft(drawing[1].lifts[3])
    /\ ~CwAdjoinsLeft(drawing[1].lifts[4])

\* The LiftConfig a drawn lift of bank d was drawn from.
ConfigOf(d, k) == IF d.bank = 1 THEN lifts[k] ELSE lifts_bank2[k]

\* C20: for every lift drawn, in every layout, MRL or MRA, normal or
\* mirrored, the lift doors, the door panels and the structural opening
\* share one horizontal centre: the car centre for a passenger lift, the
\* shaft centre for a fire lift.
C20_OneDoorCentre ==
    \A n \in 1..Len(drawing) :
        \A k \in 1..Len(drawing[n].lifts) :
            LET l == drawing[n].lifts[k]
                lc == ConfigOf(drawing[n], k)
                centre == IF lc.lift_type = "fire"
                          THEN l.shaft_left + l.sw \div 2
                          ELSE l.car_x + px(unfinished_car_width(lc)) \div 2
            IN  /\ l.lift_doors_center_x = centre
                /\ l.door_x + l.dw \div 2 = centre
                /\ l.opening_x + l.sow \div 2 = centre

\* ---------------------------------------------------------------------
\* Section view: SectionConfig, LiftSectionSketch
\* ---------------------------------------------------------------------

\* The fields of the SectionConfig dataclass with their defaults.
SectionConfigDefaults ==
    [ pit_depth                 |-> config.DEFAULT_PIT_DEPTH,
      overhead_clearance        |-> config.DEFAULT_OVERHEAD_CLEARANCE,
      travel_height             |-> config.DEFAULT_TRAVEL_HEIGHT,
      floor_height              |-> config.DEFAULT_FLOOR_HEIGHT,
      car_interior_height       |-> config.DEFAULT_CAR_INTERIOR_HEIGHT,
      door_height               |-> config.DEFAULT_DOOR_HEIGHT,
      structural_opening_height |-> config.DEFAULT_STRUCTURAL_OPENING_HEIGHT,
      machine_room_height       |-> config.DEFAULT_MACHINE_ROOM_HEIGHT ]

\* SectionConfig(**kw): a keyword that is no field of the dataclass raises
\* TypeError; there is no __post_init__.
SectionConfig(kw) ==
    IF DOMAIN kw \subseteq DOMAIN SectionConfigDefaults
    THEN [ outcome |-> "ok",
           obj |-> [f \in DOMAIN SectionConfigDefaults |->
                      IF f \in DOMAIN kw THEN kw[f] ELSE SectionConfigDefaults[f]] ]
    ELSE [ outcome |-> "TypeError", obj |-> SectionConfigDefaults ]

\* The LiftConfig attributes LiftSectionSketch.__init__ reads.
SectionLiftConfig(machine_type, shaft_width_, wall_thickness, door_height, structural_opening_height) ==
    [ lift_machine_type         |-> machine_type,
      shaft_width               |-> shaft_width_,
      wall_thickness            |-> wall_thickness,
      door_height               |-> door_height,
      structural_opening_height |-> structural_opening_height ]

\* _calculate_geometry with the drawing as tall as the real shaft.
section_calculate_geometry_RealHeight(sk, section_config) ==
    LET mra == sk.machine_type = "mra"
        mrh == IF mra THEN section_config.machine_room_height ELSE 0
    IN  [ machine_type              |-> sk.machine_type,
          shaft_width               |-> sk.shaft_width,
          wall_thickness            |-> sk.wall_thickness,
          door_height               |-> sk.door_height,
          structural_opening_height |-> sk.structural_opening_height,
          pit_depth                 |-> sk.pit_depth,
          overhead_clearance        |-> sk.overhead_clearance,
          travel_height             |-> sk.travel_height,
          total_width               |-> sk.shaft_width + 2 * sk.wall_thickness,
          ground_floor_y            |-> 0,
          pit_bottom_y              |-> 0 - sk.pit_depth,
          top_floor_y               |-> sk.travel_height,
          overhead_top_y            |-> sk.travel_height + sk.overhead_clearance,
          ground_zone_height        |-> mm(4000),
          top_zone_height           |-> mm(5000),
          break_zone_height         |-> mm(1500),
          drawing_height            |-> sk.pit_depth + sk.travel_height
                                        + sk.overhead_clearance + mrh,
          machine_room_height       |-> mrh ]

\* LiftSectionSketch._calculate_geometry on the attributes __init__ has set.
section_calculate_geometry(sk, section_config) ==
    LET mra == sk.machine_type = "mra"
        mrh == IF mra THEN section_config.machine_room_height ELSE 0
    IN  [ machine_type              |-> sk.machine_type,
          shaft_width               |-> sk.shaft_width,
          wall_thickness            |-> sk.wall_thickness,
          door_height               |-> sk.door_height,
          structural_opening_height |-> sk.structural_opening_height,
          pit_depth                 |-> sk.pit_depth,
          overhead_clearance        |-> sk.overhead_clearance,
          travel_height             |-> sk.travel_height,
          total_width               |-> sk.shaft_width + 2 * sk.wall_thickness,
          ground_floor_y            |-> 0,
          pit_bottom_y              |-> 0 - sk.pit_depth,
          top_floor_y               |-> sk.travel_height,
          overhead_top_y            |-> sk.travel_height + sk.overhead_clearance,
          ground_zone_height        |-> mm(4000),
          top_zone_height           |-> mm(5000),
          break_zone_height         |-> mm(1500),
          drawing_height            |-> sk.pit_depth + mm(4000) + mm(1500) + mm(5000) + mrh,
          machine_room_height       |-> mrh ]

\* LiftSectionSketch(lift_config=..., section_config=...).
LiftSectionSketchInit(lift_config, section_config) ==
    section_calculate_geometry(
        [ machine_type              |-> lift_config.lift_machine_type,
          shaft_width               |-> lift_config.shaft_width,
          wall_thickness            |-> lift_config.wall_thickness,
          door_height               |-> lift_config.door_height,
          structural_opening_height |-> lift_config.structural_opening_height,
          pit_depth                 |-> section_config.pit_depth,
          overhead_clearance        |-> section_config.overhead_clearance,
          travel_height             |-> section_config.travel_height ],
        section_config)

\* The "Travel" number of _draw_section_dimensions.
travel_text(top_level, ground_floor_slab_y) == int(top_level - ground_floor_slab_y)

\* _draw_section with _draw_section_dimensions: the levels it computes, the
\* three segments of the left wall and the numbers on the dimension lines.
draw_section(sk) ==
    LET wt == sk.wall_thickness
        pit_bottom == 0 - sk.pit_depth
        ground_level == 0
        break_line_bottom == sk.ground_zone_height
        break_line_top == break_line_bottom + sk.break_zone_height
        top_level == break_line_top + (sk.top_zone_height - sk.overhead_clearance)
        overhead_top == break_line_top + sk.top_zone_height
        ground_floor_slab_y == ground_level + mm(1200)
        opening_height == sk.structural_opening_height
        ground_opening_top == ground_floor_slab_y + opening_height
        top_opening_top == top_level + opening_height
        machine_room_top == IF sk.machine_type = "mra"
                            THEN overhead_top + sk.machine_room_height
                            ELSE overhead_top
    IN  [ drawn               |-> TRUE,
          pit_bottom          |-> pit_bottom,
          ground_level        |-> ground_level,
          ground_floor_slab_y |-> ground_floor_slab_y,
          break_line_bottom   |-> break_line_bottom,
          break_line_top      |-> break_line_top,
          top_zone_bottom     |-> break_line_top,
          top_level           |-> top_level,
          overhead_top        |-> overhead_top,
          machine_room_top    |-> machine_room_top,
          left_wall           |-> << Rect(0, pit_bottom, wt, ground_floor_slab_y - pit_bottom),
                                     Rect(0, ground_opening_top, wt,
                                          top_level - ground_opening_top),
                                     Rect(0, top_opening_top, wt,
                                          overhead_top - top_opening_top) >>,
          right_wall          |-> Rect(wt + sk.shaft_width, pit_bottom, wt,
                                       machine_room_top - pit_bottom),
          pit_depth_text      |-> int(ground_floor_slab_y - ground_level),
          travel_text         |-> travel_text(top_level, ground_floor_slab_y),
          headroom_text       |-> int(overhead_top - wt - top_level),
          ylim                |-> << pit_bottom - mm(1000), machine_room_top + mm(500) >> ]

\* ---------------------------------------------------------------------
\* Section view of the web app: render_section_config_form and the
\* "Generate Section" branch of main
\* ---------------------------------------------------------------------

\* What number_input returns in place of a value when Streamlit raises.
StreamlitAPIException == -3

\* st.number_input(min_value, max_value, value) with no stored value: the
\* default is returned, or Streamlit raises when it is outside the range.
number_input(min_value, max_value, value) ==
    IF value < min_value \/ value > max_value THEN StreamlitAPIException ELSE value

\* render_section_config_form: the widgets in the order the script creates
\* them.  Each default is evaluated before its widget is created, so a
\* name config.py does not define raises AttributeError there and nothing
\* after it is rendered.
render_section_config_form(machine_type) ==
    IF ~hasattr("DEFAULT_PIT_SLAB")
    THEN [ outcome |-> "AttributeError" ]
    ELSE IF number_input(mm(500), mm(3000), config.DEFAULT_PIT_DEPTH) = StreamlitAPIException
    THEN [ outcome |-> "StreamlitAPIException" ]
    ELSE [ outcome                   |-> "ok",
           shaft_width               |-> number_input(mm(500), mm(6000), config.DEFAULT_SHAFT_WIDTH),
           wall_thickness            |-> number_input(mm(100), mm(500), config.DEFAULT_WALL_THICKNESS),
           pit_slab                  |-> number_input(mm(100), mm(500), config["DEFAULT_PIT_SLAB"]),
           pit_depth                 |-> number_input(mm(500), mm(3000), config.DEFAULT_PIT_DEPTH),
           travel_height             |-> number_input(mm(5000), mm(200000), config.DEFAULT_TRAVEL_HEIGHT),
           overhead_clearance        |-> number_input(mm(2000), mm(10000), config.DEFAULT_OVERHEAD_CLEARANCE),
           door_height               |-> number_input(mm(1500), mm(3500), config.DEFAULT_DOOR_HEIGHT),
           structural_opening_height |-> number_input(mm(1500), mm(4000), config.DEFAULT_STRUCTURAL_OPENING_HEIGHT),
           machine_room_height       |-> IF machine_type = "mra"
                                         THEN number_input(mm(2000), mm(6000), config.DEFAULT_MACHINE_ROOM_HEIGHT)
                                         ELSE None ]

\* The keyword arguments main passes to SectionConfig.
section_kwargs(machine_type, section_form) ==
    [ f \in {"pit_slab", "pit_depth", "overhead_clearance", "travel_height"}
            \cup (IF machine_type = "mra" /\ section_form.machine_room_height # None
                  THEN {"machine_room_height"} ELSE {})
        |-> section_form[f] ]

\* The try block of the "Generate Section" press: what ends up in
\* section_generated_image and section_generation_error.
generate_section(machine_type, section_form) ==
    LET lc == post_init(With([ lift_machine_type    |-> machine_type,
                               shaft_width_override |-> section_form.shaft_width ]))
        cfg == SectionConfig(section_kwargs(machine_type, section_form))
    IN  IF lc.outcome = "ValueError"
        THEN [ image |-> "None", error |-> "ValueError" ]
        ELSE IF lc.outcome # "ok" \/ cfg.outcome # "ok"
        THEN [ image |-> "None", error |-> "Unexpected error" ]
        ELSE [ image |-> "png", error |-> "None" ]

\* The values the section sketches are built from.
SectionMachineTypes == {"mrl", "mra"}
PitDepths == { mm(200), mm(500), mm(3000) }
TravelHeights == { mm(5000), mm(5100), mm(30000), mm(200000) }
OverheadClearances == { mm(2000), mm(4200), mm(5000), mm(10000) }
OpeningHeights == { mm(1500), mm(2200), mm(4000) }

InitSection ==
    /\ kwargs = LiftConfigDefaults
    /\ result = NoResult
    /\ lifts = << >>
    /\ lifts_bank2 = << >>
    /\ sketch = NoSketch
    /\ pc = "section"
    /\ validationsRun = 0
    /\ validationFailed = FALSE
    /\ drawCalls = 0
    /\ sketch_errors = << >>
    /\ drawing = << >>
    /\ image = "none"
    /\ session_state = EmptySessionState
    /\ page = NoPage
    /\ section_sketch = NoSectionSketch
    /\ section_drawing = NoSectionDrawing

\* sketch = LiftSectionSketch(lift_config=LiftConfig(...),
\*                            section_config=SectionConfig(...))
NewSectionSketch ==
    /\ pc = "section"
    /\ \E mt \in SectionMachineTypes, pit \in PitDepths, travel \in TravelHeights, oh \in OverheadClearances, soh \in OpeningHeights :
          LET cfg == SectionConfig([ pit_depth          |-> pit,
                                     overhead_clearance |-> oh,
                                     travel_height      |-> travel ])
              lc == SectionLiftConfig(mt, config.DEFAULT_SHAFT_WIDTH,
                                      config.DEFAULT_WALL_THICKNESS,
                                      config.DEFAULT_DOOR_HEIGHT, soh)
          IN  section_sketch' = LiftSectionSketchInit(lc, cfg.obj)
    /\ section_drawing' = NoSectionDrawing
    /\ UNCHANGED << session_state, page, kwargs, result, lifts, lifts_bank2, sketch, pc,
                    validationsRun, validationFailed, drawCalls, sketch_errors,
                    drawing, image >>

\* sketch.to_bytes(): _draw_section on a fresh figure.
SectionToBytes ==
    /\ pc = "section"
    /\ section_sketch # NoSectionSketch
    /\ section_drawing' = draw_section(section_sketch)
    /\ UNCHANGED << session_state, page, section_sketch, kwargs, result, lifts,
                    lifts_bank2, sketch, pc, validationsRun, validationFailed,
                    drawCalls, sketch_errors, drawing, image >>

\* One run of the script with "Section View" selected.  The button can be
\* pressed only if the previous run rendered it; a press reruns the script
\* with section_generate_btn True.
SectionPageRun ==
    /\ pc = "section"
    /\ \E machine_type \in SectionMachineTypes, section_generate_btn \in BOOLEAN :
          /\ section_generate_btn => (page.view = "Section View" /\ page.button_shown)
          /\ LET section_form == render_section_config_form(machine_type)
                 rendered == section_form.outcome = "ok"
                 generated == generate_section(machine_type, section_form)
             IN  /\ session_state' =
                       IF rendered /\ section_generate_btn
                       THEN [ session_state EXCEPT
                                !.section_generated_image = generated.image,
                                !.section_generation_error = generated.error ]
                       ELSE session_state
                 /\ page' = [ view           |-> "Section View",
                              outcome        |-> section_form.outcome,
                              brackets_shown |-> FALSE,
                              has_errors     |-> FALSE,
                              button_shown   |-> rendered,
                              generate_btn   |-> rendered /\ section_generate_btn,
                              press          |-> IF ~(rendered /\ section_generate_btn)
                                                 THEN page.press
                                                 ELSE IF generated.image # "None"
                                                 THEN "stored" ELSE "raised",
                              image_shown    |-> rendered /\ session_state'.section_generated_image # "None" ]
    /\ UNCHANGED << section_sketch, section_drawing, kwargs, result, lifts, lifts_bank2,
                    sketch, pc, validationsRun, validationFailed, drawCalls,
                    sketch_errors, drawing, image >>

NextSection ==
    \/ NewSectionSketch
    \/ SectionToBytes
    \/ SectionPageRun

SpecSection == InitSection /\ [][NextSection]_vars

\* The user keeps the section page open and presses "Generate Section"
\* whenever the page offers the button.
SpecSectionLive ==
    SpecSection /\ WF_vars(SectionPageRun) /\ WF_vars(SectionPageRun /\ page'.generate_btn)

\* ---------------------------------------------------------------------
\* Plan view of the web app: render_lift_config_form for one MRL passenger
\* lift in bank 1 and the "Generate Sketch" branch of main.  The widgets
\* this model does not edit stay at their defaults.
\* ---------------------------------------------------------------------

min_cw == int(config.DEFAULT_COUNTERWEIGHT_BRACKET_WIDTH)

min_car == int(config.DEFAULT_CAR_BRACKET_WIDTH)

\* The equal split of the width the brackets share.
default_cw(available_width) == min_cw + (available_width - min_cw - min_car) \div 2

\* The linking with both brackets moved by half of the change.
link_brackets_HalfEach(ss, available_width) ==
    LET d_cw == default_cw(available_width)
        s1 == [ ss EXCEPT !.cw_bracket = IF @ = None THEN d_cw ELSE @,
                          !.car_bracket = IF @ = None THEN available_width - d_cw ELSE @ ]
        prev_avail == s1.avail_w
        half == (available_width - prev_avail) \div 2
        new_cw == s1.cw_bracket + half
        new_car == s1.car_bracket + half
        s2 == IF prev_avail # None /\ prev_avail # available_width
              THEN IF new_cw >= min_cw /\ new_car >= min_car
                   THEN [ s1 EXCEPT !.cw_bracket = new_cw, !.car_bracket = new_car ]
                   ELSE [ s1 EXCEPT !.cw_bracket = d_cw,
                                    !.car_bracket = available_width - d_cw ]
              ELSE s1
    IN  [ s2 EXCEPT !.avail_w = available_width ]

\* The else branch of the MRL bracket block: the two bracket keys are
\* initialised when absent, re-split when the available width changed
\* since the run that last stored it, and the available width is stored.
link_brackets(ss, available_width) ==
    LET d_cw == default_cw(available_width)
        s1 == [ ss EXCEPT !.cw_bracket = IF @ = None THEN d_cw ELSE @,
                          !.car_bracket = IF @ = None THEN available_width - d_cw ELSE @ ]
        prev_avail == s1.avail_w
        half == (available_width - prev_avail) \div 2
        new_cw == s1.cw_bracket + half
        new_car == available_width - new_cw
        s2 == IF prev_avail # None /\ prev_avail # available_width
              THEN IF new_cw >= min_cw /\ new_car >= min_car
                   THEN [ s1 EXCEPT !.cw_bracket = new_cw, !.car_bracket = new_car ]
                   ELSE [ s1 EXCEPT !.cw_bracket = d_cw,
                                    !.car_bracket = available_width - d_cw ]
              ELSE s1
    IN  [ s2 EXCEPT !.avail_w = available_width ]

\* _on_cw_change / _on_car_change: run after the edited widget's key holds
\* the new value and before the script reruns.
on_cw_change(ss) ==
    [ ss EXCEPT !.car_bracket = Max(min_car, ss.avail_w - ss.cw_bracket) ]

on_car_change(ss) ==
    [ ss EXCEPT !.cw_bracket = Max(min_cw, ss.avail_w - ss.car_bracket) ]

\* The shaft width and car width inputs: a widget without a stored value
\* takes its default.
form_inputs(ss) ==
    [ ss EXCEPT !.shaft_width = IF @ = None THEN int(config.DEFAULT_SHAFT_WIDTH) ELSE @,
                !.width = IF @ = None THEN int(config.DEFAULT_FINISHED_CAR_WIDTH) ELSE @ ]

\* available_width = int(shaft_width_input - unfinished_car_width).
available_width_of(ss) ==
    ss.shaft_width - (ss.width + 2 * int(config.DEFAULT_CAR_WALL_THICKNESS))

\* The MRL bracket block.  Below the threshold the bracket widgets are not
\* created; dropped: Streamlit discards the stored value of a keyed widget
\* the run does not create, and whether it has done so by the next run is
\* left open.
bracket_block(ss, dropped) ==
    IF available_width_of(ss) >= min_cw + min_car
    THEN link_brackets(ss, available_width_of(ss))
    ELSE IF dropped THEN [ ss EXCEPT !.cw_bracket = None, !.car_bracket = None ]
    ELSE ss

\* The bracket values the form returns.
form_cw_bracket(ss) ==
    IF available_width_of(ss) >= min_cw + min_car THEN ss.cw_bracket ELSE min_cw

form_car_bracket(ss) ==
    IF available_width_of(ss) >= min_cw + min_car THEN ss.car_bracket ELSE min_car

\* temp_lift = LiftConfig(**temp_kwargs).
temp_lift_of(ss) ==
    post_init(With([ finished_car_width          |-> mm(ss.width),
                     counterweight_bracket_width |-> mm(form_cw_bracket(ss)),
                     car_bracket_width           |-> mm(form_car_bracket(ss)) ]))

\* The validation block and the dict the form returns.
form_validation(ss, temp_lift) ==
    [ session_state        |-> ss,
      brackets_shown       |-> available_width_of(ss) >= min_cw + min_car,
      width                |-> ss.width,
      cw_bracket_width     |-> form_cw_bracket(ss),
      car_bracket_width    |-> form_car_bracket(ss),
      shaft_width_override |-> IF temp_lift.outcome = "ok"
                                  /\ ss.shaft_width > int(min_shaft_width(temp_lift.obj))
                               THEN ss.shaft_width ELSE None,
      has_errors           |-> \/ temp_lift.outcome # "ok"
                               \/ ss.shaft_width < int(min_shaft_width(temp_lift.obj))
                               \/ int(config.DEFAULT_SHAFT_DEPTH) < int(min_shaft_depth(temp_lift.obj))
                               \/ int(2 * config.DEFAULT_DOOR_WIDTH + 2 * config.DEFAULT_DOOR_EXTENSION)
                                    > Max(ss.shaft_width, int(min_shaft_width(temp_lift.obj))) ]

\* The form on the state the bracket block left.
form_after_brackets(ss) == form_validation(ss, temp_lift_of(ss))

\* render_lift_config_form(0, "bank1", "mrl").
render_lift_config_form(ss, dropped) ==
    form_after_brackets(bracket_block(form_inputs(ss), dropped))

\* lc = build_lift_config(lift_data, ...).
build_lift_config(lift_data) ==
    post_init(With([ finished_car_width          |-> mm(lift_data.width),
                     counterweight_bracket_width |-> mm(lift_data.cw_bracket_width),
                     car_bracket_width           |-> mm(lift_data.car_bracket_width),
                     shaft_width_override        |->
                         IF lift_data.shaft_width_override = None THEN None
                         ELSE mm(lift_data.shaft_width_override) ]))

\* What the try block stores, from the outcome of the LiftConfig call and
\* of the LiftShaftSketch call.
generate_outcome(lc_outcome, sk_outcome) ==
    IF lc_outcome = "ValueError" THEN [ image |-> "None", error |-> "ValueError" ]
    ELSE IF lc_outcome # "ok" THEN [ image |-> "None", error |-> "Unexpected error" ]
    ELSE IF sk_outcome = "ValueError" THEN [ image |-> "None", error |-> "ValueError" ]
    ELSE IF sk_outcome # "ok" THEN [ image |-> "None", error |-> "Unexpected error" ]
    ELSE [ image |-> "png", error |-> "None" ]

\* LiftShaftSketch(lifts=[lc], ...) and to_bytes for the lift config lc.
sketch_of(lc) ==
    generate_outcome(lc.outcome,
        LiftShaftSketchInit(
            [ shaft_depth |-> None, num_lifts |-> 1, is_common_shaft |-> FALSE,
              shaft_width |-> None, wall_thickness |-> config.DEFAULT_WALL_THICKNESS,
              shared_wall_thickness |-> None, lobby_width |-> None,
              steel_beam_width |-> None ],
            << lc.obj >>, << >>).outcome)

\* The try block of the "Generate Sketch" press.
generate_sketch(lift_data) == sketch_of(build_lift_config(lift_data))

\* The preview column: a press of a form with dimension errors shows an
\* error and leaves session state as it is; any other press stores what
\* the try block produced.
preview(ss, any_errors, prev_page, generate_btn, generated) ==
    [ session_state |->
          IF generate_btn /\ ~any_errors
          THEN [ ss EXCEPT !.generated_image = generated.image,
                           !.generation_error = generated.error ]
          ELSE ss,
      page |-> [ view           |-> "Plan View",
                 outcome        |-> "ok",
                 brackets_shown |-> available_width_of(ss) >= min_cw + min_car,
                 has_errors     |-> any_errors,
                 button_shown   |-> TRUE,
                 generate_btn   |-> generate_btn,
                 press          |-> IF ~generate_btn THEN prev_page.press
                                    ELSE IF any_errors THEN "blocked"
                                    ELSE IF generated.image # "None" THEN "stored"
                                    ELSE "raised",
                 image_shown    |-> IF generate_btn /\ ~any_errors
                                    THEN generated.image # "None"
                                    ELSE ss.generated_image # "None" ] ]

\* The script from the form's return value on.
main_after_form(form, prev_page, generate_btn) ==
    preview(form.session_state, form.has_errors, prev_page, generate_btn,
            generate_sketch(form))

\* One run of the script with "Plan View" selected.
main_plan(ss, prev_page, generate_btn, dropped) ==
    main_after_form(render_lift_config_form(ss, dropped), prev_page, generate_btn)

\* The values the user types into the form.
ShaftWidthEdits == { 2900, 2950, 2955, 3050 }
CarWidthEdits == { 1900, 1905 }
BracketEdits == { 375, 400, 625, 650 }

InitApp ==
    /\ kwargs = LiftConfigDefaults
    /\ result = NoResult
    /\ lifts = << >>
    /\ lifts_bank2 = << >>
    /\ sketch = NoSketch
    /\ pc = "app"
    /\ validationsRun = 0
    /\ validationFailed = FALSE
    /\ drawCalls = 0
    /\ sketch_errors = << >>
    /\ drawing = << >>
    /\ image = "none"
    /\ session_state = EmptySessionState
    /\ page = NoPage
    /\ section_sketch = NoSectionSketch
    /\ section_drawing = NoSectionDrawing

\* The run leaves the session state and the page r holds.
RunTo(r) ==
    /\ session_state' = r.session_state
    /\ page' = r.page

\* The script reruns on state ss with the button value generate_btn.
Rerun(ss, generate_btn) ==
    /\ \E dropped \in BOOLEAN : RunTo(main_plan(ss, page, generate_btn, dropped))
    /\ UNCHANGED << section_sketch, section_drawing, kwargs, result, lifts, lifts_bank2,
                    sketch, pc, validationsRun, validationFailed, drawCalls,
                    sketch_errors, drawing, image >>

\* The page is opened, or reruns for a widget this model does not follow.
PlanPageRun ==
    /\ pc = "app"
    /\ Rerun(session_state, FALSE)

EditShaftWidth ==
    /\ pc = "app"
    /\ page.view = "Plan View"
    /\ \E v \in ShaftWidthEdits :
          /\ v # session_state.shaft_width
          /\ Rerun([ session_state EXCEPT !.shaft_width = v ], FALSE)

EditCarWidth ==
    /\ pc = "app"
    /\ page.view = "Plan View"
    /\ \E v \in CarWidthEdits :
          /\ v # session_state.width
          /\ Rerun([ session_state EXCEPT !.width = v ], FALSE)

\* The widget accepts values within its min_value and max_value only.
EditCwBracket ==
    /\ pc = "app"
    /\ page.brackets_shown
    /\ \E v \in BracketEdits :
          /\ v # session_state.cw_bracket
          /\ v \in min_cw..(session_state.avail_w - min_car)
          /\ Rerun(on_cw_change([ session_state EXCEPT !.cw_bracket = v ]), FALSE)

EditCarBracket ==
    /\ pc = "app"
    /\ page.brackets_shown
    /\ \E v \in BracketEdits :
          /\ v # session_state.car_bracket
          /\ v \in min_car..(session_state.avail_w - min_cw)
          /\ Rerun(on_car_change([ session_state EXCEPT !.car_bracket = v ]), FALSE)

PressGenerate ==
    /\ pc = "app"
    /\ page.button_shown
    /\ Rerun(session_state, TRUE)

NextApp ==
    \/ PlanPageRun
    \/ EditShaftWidth
    \/ EditCarWidth
    \/ EditCwBracket
    \/ EditCarBracket
    \/ PressGenerate

SpecApp == InitApp /\ [][NextApp]_vars

\* ---------------------------------------------------------------------
\* C21 .. C30
\* ---------------------------------------------------------------------

\* Bracket widths to the left and to the right of the car of a drawn lift.
LeftBracketOf(lc, mir) ==
    IF lc.lift_machine_type = "mra" THEN lc.mra_car_bracket_width
    ELSE IF mir THEN lc.car_bracket_width ELSE lc.counterweight_bracket_width

RightBracketOf(lc, mir) ==
    IF lc.lift_machine_type = "mra" THEN mra_right_bracket_width(lc)
    ELSE IF mir THEN lc.counterweight_bracket_width ELSE lc.car_bracket_width

\* Distance from the inner face of the front wall to the front of the car.
CarFrontGap(d, l) ==
    IF d.doors_face = "down" THEN l.car_y - l.shaft_y
    ELSE (l.shaft_y + l.sd) - (l.car_y + l.car_d)

\* Distance from the rear of the car to the inner face of the back wall.
CarRearGap(d, l) ==
    IF d.doors_face = "down" THEN l.back_wall.y - (l.car_y + l.car_d)
    ELSE l.car_y - (l.back_wall.y + l.back_wall.h)

\* Distance from the rear of the car to the MRA counterweight bracket.
CarToCwBracket(d, l) ==
    IF d.doors_face = "down" THEN l.cw_bracket_y - (l.car_y + l.car_d)
    ELSE l.car_y - (l.cw_bracket_y + l.cw_bracket_d)

WithTravel(sk, t) ==
    LiftSectionSketchInit(
        SectionLiftConfig(sk.machine_type, sk.shaft_width, sk.wall_thickness,
                          sk.door_height, sk.structural_opening_height),
        SectionConfig([ pit_depth          |-> sk.pit_depth,
                        overhead_clearance |-> sk.overhead_clearance,
                        travel_height      |-> t ]).obj)

\* The drawing height of a section sketch and the zone boundaries its
\* drawing uses.
LayoutOf(sk) ==
    LET d == draw_section(sk)
    IN  [ drawing_height    |-> sk.drawing_height,
          pit_bottom        |-> d.pit_bottom,
          ground_level      |-> d.ground_level,
          break_line_bottom |-> d.break_line_bottom,
          break_line_top    |-> d.break_line_top,
          top_zone_bottom   |-> d.top_zone_bottom,
          overhead_top      |-> d.overhead_top,
          machine_room_top  |-> d.machine_room_top,
          ylim              |-> d.ylim ]

\* C22: for fixed pit depth, overhead clearance and machine type, the
\* drawing height and every zone boundary (ground zone, break-line zone,
\* top zone, machine room) of the section view are the same for every
\* travel_height.
C22_ConstantSizeSection ==
    section_sketch # NoSectionSketch =>
        /\ \A t \in TravelHeights :
              LayoutOf(WithTravel(section_sketch, t)) = LayoutOf(section_sketch)
        /\ section_sketch.drawing_height
              = section_sketch.pit_depth + mm(10500) + section_sketch.machine_room_height
        /\ section_drawing.drawn =>
              /\ section_drawing.break_line_bottom = mm(4000)
              /\ section_drawing.break_line_top = mm(5500)
              /\ section_drawing.overhead_top = mm(10500)

\* A 200 m travel drawn in a 13.7 m tall MRA section.
C22_Witness ==
    /\ section_drawing.drawn
    /\ section_sketch.travel_height = mm(200000)
    /\ section_sketch.machine_type = "mra"
    /\ section_sketch.drawing_height = mm(13700)
    /\ section_drawing.machine_room_top = mm(13500)

\* C27: no derived vertical length in the section layout is negative: for
\* overhead clearance 2000..10000 mm and structural opening height
\* 1500..4000 mm, each of the three left-wall segments has non-negative
\* height and the top landing level is not below the top of the break-line
\* zone.
C27_NoNegativeLength ==
    ( /\ section_drawing.drawn
      /\ section_sketch.overhead_clearance \in mm(2000)..mm(10000)
      /\ section_sketch.structural_opening_height \in mm(1500)..mm(4000) ) =>
        /\ \A i \in 1..3 : section_drawing.left_wall[i].h >= 0
        /\ section_drawing.top_level >= section_drawing.break_line_top

\* C28: the number printed on the "Travel" dimension of the section view
\* equals the configured travel_height, for every travel height, pit depth
\* and overhead clearance.
C28_TravelNumber ==
    section_drawing.drawn =>
        section_drawing.travel_text = int(section_sketch.travel_height)

\* C30: in the section-view form, once the form has been rendered with its
\* default values, pressing Generate Section eventually stores a section
\* image: section_generated_image is set and section_generation_error is
\* None.
C30_SectionImageStored ==
    (page.view = "Section View") ~>
        ( /\ session_state.section_generated_image # "None"
          /\ session_state.section_generation_error = "None" )

\* The width the two MRL brackets share: shaft width minus unfinished car
\* width, from the values the form holds.
AvailableWidth ==
    session_state.shaft_width
        - (session_state.width + 2 * int(config.DEFAULT_CAR_WALL_THICKNESS))

\* C24: in the MRL lift form, after any sequence of shaft-width, car-width
\* and bracket edits, whenever the available width is at least 625 + 375,
\* the stored CW bracket and car bracket values sum exactly to the
\* available width and each is at least its own minimum.
C24_BracketZeroSum ==
    (page.view = "Plan View" /\ AvailableWidth >= 625 + 375) =>
        /\ session_state.cw_bracket + session_state.car_bracket = AvailableWidth
        /\ session_state.cw_bracket >= 625
        /\ session_state.car_bracket >= 375

\* An odd available width, 1005, split unevenly after a bracket edit.
C24_Witness ==
    /\ page.view = "Plan View"
    /\ AvailableWidth = 1005
    /\ session_state.cw_bracket = 627
    /\ session_state.car_bracket = 378

\* C29: in the plan-view form, if the most recent Generate press produced
\* no image (blocked by dimension errors, or generation raised), session
\* state holds no generated image and none is shown next to the error.
C29_NoStaleImage ==
    page.press \in {"blocked", "raised"} =>
        /\ session_state.generated_image = "None"
        /\ ~page.image_shown

\* The drawing n is that of a single lift, with its dimension lines.
IsSingleLift(n) == Len(lifts) = 1 /\ Len(lifts_bank2) = 0 /\ drawing[n].bank = 1

\* C23: along the top edge of a lift the dimension lines are placed at
\* strictly increasing distance from the shaft in the order shaft width,
\* bracket widths, finished-car width, unfinished-car width, so that no two
\* of these dimensions share a stacking level.
C23_StackingOrder ==
    \A n \in 1..Len(drawing) :
        IsSingleLift(n) =>
            LET t == drawing[n].top_dimensions
            IN  /\ t[1].dim_y < t[2].dim_y
                /\ t[1].dim_y < t[3].dim_y
                /\ t[2].dim_y < t[4].dim_y
                /\ t[3].dim_y < t[4].dim_y
                /\ t[4].dim_y < t[5].dim_y

\* C25: for every lift of every constructed layout whose
\* structural_opening_width is at most its shaft width, the structural
\* opening's horizontal span lies inside that lift's own shaft span
\* [shaft_left, shaft_left + shaft_width].
C25_OpeningInsideShaft ==
    \A n \in 1..Len(drawing) :
        \A k \in 1..Len(drawing[n].lifts) :
            LET l == drawing[n].lifts[k]
                lc == ConfigOf(drawing[n], k)
            IN  lc.structural_opening_width <= shaft_width(lc) =>
                    /\ l.shaft_left <= l.opening_x
                    /\ l.opening_x + l.sow <= l.shaft_left + l.sw

\* C26: for an odd-index (mirrored) MRL lift the counterweight bracket box
\* is drawn flush against the right inner wall of the lift's shaft: its
\* right edge is at shaft_x + shaft_width, also when shaft_width_override
\* exceeds the minimum shaft width.
C26_MirroredCwFlushRight ==
    \A n \in 1..Len(drawing) :
        \A k \in 1..Len(drawing[n].lifts) :
            LET l == drawing[n].lifts[k]
            IN  (l.mirror /\ l.cw_align = "right") =>
                    l.cw_box_x + l.cw_box_w = l.shaft_left + l.sw
====
